---------------------------- MODULE Spec2Model ----------------------------
(***************************************************************************)
(* Model of the numerical-methods calculator: the NumericalMethod base     *)
(* class and the iterative methods built on it (Bisection, Newton-Raphson, *)
(* Fixed-Point, Gauss-Jacobi, Gauss-Seidel).                               *)
(*                                                                         *)
(* One method instance is modelled.  Its fields are `iterations` and       *)
(* `result`; `logs` is the window of the Logger's entries since the        *)
(* latest calculate() call began (levels success, warning and error; the   *)
(* info entries carry no decision).  calculate() is split at its loop:     *)
(* one action for the code before the loop, one for a pass through the     *)
(* loop body, one for the code after the loop.  JavaScript is single       *)
(* threaded, so `pc` lets no other call start while one is in the loop.    *)
(*                                                                         *)
(* Numbers.  A JavaScript number is modelled as a record [n, d]:           *)
(*   d > 0            the rational n/d in lowest terms (exact arithmetic   *)
(*                    in place of binary rounding),                        *)
(*   [n=1,d=0]        +Infinity,   [n=-1,d=0]  -Infinity,                  *)
(*   [n=0,d=0]        NaN (also the value a missing field compares as).    *)
(* The sign of zero is not modelled (0/x is +0).                           *)
(***************************************************************************)
EXTENDS Integers, Sequences, FiniteSets, TLC

---------------------------------------------------------------------------
(* JavaScript number arithmetic *)

NaN == [n |-> 0, d |-> 0]
PosInf == [n |-> 1, d |-> 0]
NegInf == [n |-> -1, d |-> 0]

IAbs(i) == IF i < 0 THEN -i ELSE i
ISgn(i) == IF i < 0 THEN -1 ELSE IF i > 0 THEN 1 ELSE 0

RECURSIVE GCD(_, _)
GCD(a, b) == IF b = 0 THEN a ELSE GCD(b, a % b)

\* the rational n/d (d > 0) in lowest terms
Norm(n, d) ==
    LET g == GCD(IAbs(n), d)
    IN  [n |-> ISgn(n) * (IAbs(n) \div g), d |-> d \div g]

Int2Num(i) == [n |-> i, d |-> 1]
Frac(n, d) == Norm(n, d)

isNaN(a) == a.d = 0 /\ a.n = 0
IsInf(a) == a.d = 0 /\ a.n # 0
IsFinite(a) == a.d > 0
IsZero(a) == a.d > 0 /\ a.n = 0

Neg(a) == [n |-> -a.n, d |-> a.d]
Abs(a) == [n |-> IAbs(a.n), d |-> a.d]

Add(a, b) ==
    IF isNaN(a) \/ isNaN(b) THEN NaN
    ELSE IF a.d = 0 /\ b.d = 0 THEN (IF a.n = b.n THEN a ELSE NaN)
    ELSE IF a.d = 0 THEN a
    ELSE IF b.d = 0 THEN b
    ELSE LET g == GCD(a.d, b.d)
         IN  Norm(a.n * (b.d \div g) + b.n * (a.d \div g), (a.d \div g) * b.d)

Sub(a, b) == Add(a, Neg(b))

Mul(a, b) ==
    IF isNaN(a) \/ isNaN(b) THEN NaN
    ELSE IF a.d = 0 \/ b.d = 0
         THEN (IF a.n = 0 \/ b.n = 0 THEN NaN
               ELSE [n |-> ISgn(a.n) * ISgn(b.n), d |-> 0])
    ELSE LET g1 == GCD(IAbs(a.n), b.d)
             g2 == GCD(IAbs(b.n), a.d)
         IN  Norm(ISgn(a.n) * ISgn(b.n) * ((IAbs(a.n) \div g1) * (IAbs(b.n) \div g2)),
                  (a.d \div g2) * (b.d \div g1))

\* 1/a ; 1/0 is +Infinity, 1/Infinity is 0
Recip(a) ==
    IF isNaN(a) THEN NaN
    ELSE IF a.d = 0 THEN Int2Num(0)
    ELSE IF a.n = 0 THEN PosInf
    ELSE [n |-> ISgn(a.n) * a.d, d |-> IAbs(a.n)]

Div(a, b) == Mul(a, Recip(b))

\* a < b, a <= b, a > b as JavaScript compares numbers: false when either is NaN
Lt(a, b) == LET s == Sub(a, b) IN ~isNaN(a) /\ ~isNaN(b) /\ ~isNaN(s) /\ s.n < 0
Le(a, b) == ~isNaN(a) /\ ~isNaN(b) /\ (a = b \/ Lt(a, b))
Gt(a, b) == Lt(b, a)
Ge(a, b) == Le(b, a)

\* Math.max(a, b)
Max(a, b) == IF isNaN(a) \/ isNaN(b) THEN NaN ELSE IF Lt(a, b) THEN b ELSE a

\* n/d > 10^k and n/d >= 10^k for naturals n, d (d > 0), without forming 10^k
RECURSIVE GeP(_, _, _)
GeP(n, d, k) == IF k = 0 THEN n >= d ELSE GeP(n \div 10, d, k - 1)
RECURSIVE GtP(_, _, _)
GtP(n, d, k) ==
    IF k = 0 THEN n > d
    ELSE IF n % 10 > 0 THEN GeP(n \div 10, d, k - 1)
    ELSE GtP(n \div 10, d, k - 1)

\* a > 1e+k  and  a < 1e-k  for a >= 0
GtPow10(a, k) == ~isNaN(a) /\ (IF a.d = 0 THEN a.n > 0 ELSE GtP(a.n, a.d, k))
LtNegPow10(a, k) == a.d > 0 /\ a.n >= 0 /\ GtP(a.d, a.n, k)

\* !v for a number v: 0 and NaN are falsy
Falsy(a) == isNaN(a) \/ IsZero(a)


---------------------------------------------------------------------------
(* NumericalMethod: the shared base class *)

\* The function texts of the inputs.  "" and " " never reach the evaluator
\* from calculate: every validateParams rejects them.
FunctionTexts ==
    {"x^2-2", "x", "x/4", "x/2", "1/x", "0*x", "0/x", "x+", "", " ",
     "sin(x)", "cos(x)", "tan(x)", "log(x)", "sqrt(x)", "exp(x)",
     "(x+1)^2", "2^x", "x^x", "x^2+3*x-2", "2*x^2", "Math.abs(x)"}

BlankText(func) == func = "" \/ func = " "

\* a character of an expression text
Ch(c) == [c |-> c, v |-> NaN]

\* `${x}`: the text of the number v, kept whole
Lit(v) == [c |-> "#", v |-> v]

\* a text, character by character
Str(s) == [i \in 1..Len(s) |-> Ch(s[i])]

\* the characters of each function text
Chars(func) ==
    CASE func = "x^2-2"       -> Str(<<"x", "^", "2", "-", "2">>)
      [] func = "x"           -> Str(<<"x">>)
      [] func = "x/4"         -> Str(<<"x", "/", "4">>)
      [] func = "x/2"         -> Str(<<"x", "/", "2">>)
      [] func = "1/x"         -> Str(<<"1", "/", "x">>)
      [] func = "0*x"         -> Str(<<"0", "*", "x">>)
      [] func = "0/x"         -> Str(<<"0", "/", "x">>)
      [] func = "x+"          -> Str(<<"x", "+">>)
      [] func = ""            -> <<>>
      [] func = " "           -> Str(<<" ">>)
      [] func = "sin(x)"      -> Str(<<"s", "i", "n", "(", "x", ")">>)
      [] func = "cos(x)"      -> Str(<<"c", "o", "s", "(", "x", ")">>)
      [] func = "tan(x)"      -> Str(<<"t", "a", "n", "(", "x", ")">>)
      [] func = "log(x)"      -> Str(<<"l", "o", "g", "(", "x", ")">>)
      [] func = "sqrt(x)"     -> Str(<<"s", "q", "r", "t", "(", "x", ")">>)
      [] func = "exp(x)"      -> Str(<<"e", "x", "p", "(", "x", ")">>)
      [] func = "(x+1)^2"     -> Str(<<"(", "x", "+", "1", ")", "^", "2">>)
      [] func = "2^x"         -> Str(<<"2", "^", "x">>)
      [] func = "x^x"         -> Str(<<"x", "^", "x">>)
      [] func = "x^2+3*x-2"   -> Str(<<"x", "^", "2", "+", "3", "*", "x", "-", "2">>)
      [] func = "2*x^2"       -> Str(<<"2", "*", "x", "^", "2">>)
      [] func = "Math.abs(x)" -> Str(<<"M", "a", "t", "h", ".", "a", "b", "s", "(", "x", ")">>)

\* text.replace(/pat/g, rep) for a literal pattern
RECURSIVE ReplaceAll(_, _, _)
ReplaceAll(t, pat, rep) ==
    IF Len(t) < Len(pat) THEN t
    ELSE IF SubSeq(t, 1, Len(pat)) = pat
    THEN rep \o ReplaceAll(SubSeq(t, Len(pat) + 1, Len(t)), pat, rep)
    ELSE <<Head(t)>> \o ReplaceAll(Tail(t), pat, rep)

\* func.replace(/x/g, `(${x})`)
SubstituteX(t, v) == ReplaceAll(t, Str(<<"x">>), <<Ch("("), Lit(v), Ch(")")>>)

DigitChars == <<"0", "1", "2", "3", "4", "5", "6", "7", "8", "9">>
IsDigit(e) == \E k \in 1..10 : DigitChars[k] = e.c
DigitValue(e) == (CHOOSE k \in 1..10 : DigitChars[k] = e.c) - 1
IsLetter(e) ==
    e.c \in {"a", "b", "c", "e", "g", "h", "i", "l", "n", "o", "p", "q", "r", "s", "t", "w",
             "x", "y", "I", "M", "N", "f"}

\* \d+ from i on: the index of its last digit
DigitsEnd(t, i) ==
    CHOOSE d \in i..Len(t) :
        /\ \A k \in i..d : IsDigit(t[k])
        /\ d = Len(t) \/ ~IsDigit(t[d + 1])

\* the first ")" after i, or 0
FirstClose(t, i) ==
    IF \E e \in (i + 1)..Len(t) : t[e] = Ch(")")
    THEN CHOOSE e \in (i + 1)..Len(t) :
            t[e] = Ch(")") /\ \A k \in (i + 1)..(e - 1) : t[k] # Ch(")")
    ELSE 0

\* /\(([^)]+)\)\^(\d+)/ matches at i
PowMatch(t, i) ==
    /\ t[i] = Ch("(")
    /\ LET e == FirstClose(t, i)
       IN  /\ e >= i + 2
           /\ e + 2 <= Len(t)
           /\ t[e + 1] = Ch("^")
           /\ IsDigit(t[e + 2])

\* expression.replace(/\(([^)]+)\)\^(\d+)/g, 'Math.pow($1,$2)') from i on
RECURSIVE PowRewriteFrom(_, _)
PowRewriteFrom(t, i) ==
    IF i > Len(t) THEN <<>>
    ELSE IF PowMatch(t, i)
    THEN LET e == FirstClose(t, i)
             d == DigitsEnd(t, e + 2)
         IN  Str(<<"M", "a", "t", "h", ".", "p", "o", "w", "(">>) \o SubSeq(t, i + 1, e - 1)
             \o <<Ch(",")>> \o SubSeq(t, e + 2, d) \o <<Ch(")")>>
             \o PowRewriteFrom(t, d + 1)
    ELSE <<t[i]>> \o PowRewriteFrom(t, i + 1)

PowRewrite(t) == PowRewriteFrom(t, 1)

\* the six replace(/name/g, 'Math.name') calls, in their order
MathName(name) == Str(<<"M", "a", "t", "h", ".">>) \o name
NameSin == Str(<<"s", "i", "n">>)
NameCos == Str(<<"c", "o", "s">>)
NameTan == Str(<<"t", "a", "n">>)
NameLog == Str(<<"l", "o", "g">>)
NameSqrt == Str(<<"s", "q", "r", "t">>)
NameExp == Str(<<"e", "x", "p">>)
NamePow == Str(<<"p", "o", "w">>)
NameAbs == Str(<<"a", "b", "s">>)
WhitelistedNames == <<NameSin, NameCos, NameTan, NameLog, NameSqrt, NameExp>>

RECURSIVE MapNamesFrom(_, _)
MapNamesFrom(t, k) ==
    IF k > Len(WhitelistedNames) THEN t
    ELSE MapNamesFrom(ReplaceAll(t, WhitelistedNames[k], MathName(WhitelistedNames[k])), k + 1)

MapNames(t) == MapNamesFrom(t, 1)

\* Math.pow(b, e) for e = 0, 1, 2, ...
RECURSIVE Pow(_, _)
Pow(b, e) == IF e = 0 THEN Int2Num(1) ELSE Mul(b, Pow(b, e - 1))

\* ToInt32 for |a| < 2^31: NaN and the infinities give 0, fractions are cut
ToInt32(a) == IF a.d = 0 THEN 0 ELSE ISgn(a.n) * (IAbs(a.n) \div a.d)

RECURSIVE NatXor(_, _)
NatXor(x, y) ==
    IF x = 0 THEN y
    ELSE IF y = 0 THEN x
    ELSE ((x + y) % 2) + 2 * NatXor(x \div 2, y \div 2)

\* a ^ b of the host language: the bitwise exclusive or of two 32-bit integers
BitXor(a, b) ==
    LET x == ToInt32(a)
        y == ToInt32(b)
    IN  Int2Num(IF x >= 0 /\ y >= 0 THEN NatXor(x, y)
                ELSE IF x < 0 /\ y < 0 THEN NatXor(-x - 1, -y - 1)
                ELSE IF x < 0 THEN -NatXor(-x - 1, y) - 1
                ELSE -NatXor(x, -y - 1) - 1)

\* the values of the Math functions at the arguments the inputs reach
MathValue(name, v) ==
    CASE isNaN(v) -> NaN
      [] name = NameAbs -> Abs(v)
      [] name \in {NameSin, NameTan} /\ IsZero(v) -> Int2Num(0)
      [] name \in {NameSin, NameCos, NameTan} /\ IsInf(v) -> NaN
      [] name = NameCos /\ IsZero(v) -> Int2Num(1)
      [] name = NameExp /\ IsZero(v) -> Int2Num(1)
      [] name = NameExp /\ v = PosInf -> PosInf
      [] name = NameExp /\ v = NegInf -> Int2Num(0)
      [] name = NameLog /\ v = Int2Num(1) -> Int2Num(0)
      [] name = NameLog /\ IsZero(v) -> NegInf
      [] name = NameLog /\ v = PosInf -> PosInf
      [] name = NameLog /\ v.n < 0 -> NaN
      [] name = NameSqrt /\ v.n < 0 -> NaN
      [] name = NameSqrt /\ v = PosInf -> PosInf
      [] name = NameSqrt /\ v \in {Int2Num(0), Int2Num(1)} -> v
      [] name = NameSqrt /\ v = Int2Num(4) -> Int2Num(2)
      [] name = NameSqrt /\ v = Int2Num(9) -> Int2Num(3)

\* the call name(args) in the global scope of the Function body; a name that
\* is not defined there throws
Apply(name, args) ==
    LET first == IF Len(args) >= 1 THEN args[1] ELSE NaN
    IN  IF name = MathName(NamePow)
        THEN IF Len(args) >= 2
             THEN [ok |-> TRUE, val |-> Pow(first, ToInt32(args[2]))]
             ELSE [ok |-> TRUE, val |-> NaN]
        ELSE IF \E k \in 1..Len(WhitelistedNames) : name = MathName(WhitelistedNames[k])
        THEN [ok |-> TRUE, val |-> MathValue(SubSeq(name, 6, Len(name)), first)]
        ELSE IF name = MathName(NameAbs)
        THEN [ok |-> TRUE, val |-> MathValue(NameAbs, first)]
        ELSE [ok |-> FALSE, val |-> NaN]

\* the evaluation of the expression in Function('"use strict"; return (...)'):
\* a parse from position i gives the value and the position after it, or fails
\* (a SyntaxError, ReferenceError or TypeError).  From the loosest binding to
\* the tightest: ^ (exclusive or), + -, * /, unary + -, calls and primaries.
Fail == [ok |-> FALSE, val |-> NaN, pos |-> 0]
Got(v, i) == [ok |-> TRUE, val |-> v, pos |-> i]
At(t, i, c) == i <= Len(t) /\ t[i] = Ch(c)

\* the last character of the name (letters, digits, dots) that starts at i
NameEnd(t, i) ==
    CHOOSE d \in i..Len(t) :
        /\ \A k \in i..d : IsLetter(t[k]) \/ IsDigit(t[k]) \/ t[k] = Ch(".")
        /\ d = Len(t) \/ ~(IsLetter(t[d + 1]) \/ IsDigit(t[d + 1]) \/ t[d + 1] = Ch("."))

\* the value of the digits t[i..d]
RECURSIVE DigitsValue(_, _, _)
DigitsValue(t, i, d) ==
    IF d < i THEN 0 ELSE 10 * DigitsValue(t, i, d - 1) + DigitValue(t[d])

\* the call name(...) whose arguments parsed as args
Called(r, args) == IF args.ok /\ r.ok THEN Got(r.val, args.pos) ELSE Fail
Call(name, args) == Called(Apply(name, args.vals), args)

\* one grammar rule applied at position i.  The rules: "xor", "add", "mul"
\* (an operand, then the operators of the level), "xorRest", "addRest",
\* "mulRest" (the operators after the value acc), "unary", "primary", and
\* "arguments" (the arguments of a call after the values acc, up to the
\* closing parenthesis)
RECURSIVE Parse(_, _, _, _)
Parse(rule, t, i, acc) ==
    CASE rule = "arguments" ->
            IF At(t, i, ")") /\ acc = <<>> THEN [ok |-> TRUE, vals |-> <<>>, pos |-> i + 1]
            ELSE LET e == Parse("xor", t, i, NaN)
                 IN  IF ~e.ok THEN [ok |-> FALSE, vals |-> <<>>, pos |-> 0]
                     ELSE IF At(t, e.pos, ",")
                     THEN Parse("arguments", t, e.pos + 1, Append(acc, e.val))
                     ELSE IF At(t, e.pos, ")")
                     THEN [ok |-> TRUE, vals |-> Append(acc, e.val), pos |-> e.pos + 1]
                     ELSE [ok |-> FALSE, vals |-> <<>>, pos |-> 0]
      [] rule = "primary" ->
            IF i > Len(t) THEN Fail
            ELSE IF t[i].c = "#" THEN Got(t[i].v, i + 1)
            ELSE IF IsDigit(t[i])
            THEN LET d == DigitsEnd(t, i) IN Got(Int2Num(DigitsValue(t, i, d)), d + 1)
            ELSE IF t[i] = Ch("(")
            THEN LET e == Parse("xor", t, i + 1, NaN)
                 IN  IF e.ok /\ At(t, e.pos, ")") THEN Got(e.val, e.pos + 1) ELSE Fail
            ELSE IF IsLetter(t[i])
            THEN LET d == NameEnd(t, i)
                     name == SubSeq(t, i, d)
                 IN  IF At(t, d + 1, "(")
                     THEN Call(name, Parse("arguments", t, d + 2, <<>>))
                     ELSE Fail
            ELSE Fail
      [] rule = "unary" ->
            IF At(t, i, "-")
            THEN LET e == Parse("unary", t, i + 1, NaN)
                 IN  IF e.ok THEN Got(Neg(e.val), e.pos) ELSE Fail
            ELSE IF At(t, i, "+") THEN Parse("unary", t, i + 1, NaN)
            ELSE Parse("primary", t, i, NaN)
      [] rule = "mulRest" ->
            IF At(t, i, "*")
            THEN LET r == Parse("unary", t, i + 1, NaN)
                 IN  IF r.ok THEN Parse("mulRest", t, r.pos, Mul(acc, r.val)) ELSE Fail
            ELSE IF At(t, i, "/")
            THEN LET r == Parse("unary", t, i + 1, NaN)
                 IN  IF r.ok THEN Parse("mulRest", t, r.pos, Div(acc, r.val)) ELSE Fail
            ELSE Got(acc, i)
      [] rule = "mul" ->
            LET l == Parse("unary", t, i, NaN)
            IN  IF l.ok THEN Parse("mulRest", t, l.pos, l.val) ELSE Fail
      [] rule = "addRest" ->
            IF At(t, i, "+")
            THEN LET r == Parse("mul", t, i + 1, NaN)
                 IN  IF r.ok THEN Parse("addRest", t, r.pos, Add(acc, r.val)) ELSE Fail
            ELSE IF At(t, i, "-")
            THEN LET r == Parse("mul", t, i + 1, NaN)
                 IN  IF r.ok THEN Parse("addRest", t, r.pos, Sub(acc, r.val)) ELSE Fail
            ELSE Got(acc, i)
      [] rule = "add" ->
            LET l == Parse("mul", t, i, NaN)
            IN  IF l.ok THEN Parse("addRest", t, l.pos, l.val) ELSE Fail
      [] rule = "xorRest" ->
            IF At(t, i, "^")
            THEN LET r == Parse("add", t, i + 1, NaN)
                 IN  IF r.ok THEN Parse("xorRest", t, r.pos, BitXor(acc, r.val)) ELSE Fail
            ELSE Got(acc, i)
      [] rule = "xor" ->
            LET l == Parse("add", t, i, NaN)
            IN  IF l.ok THEN Parse("xorRest", t, l.pos, l.val) ELSE Fail

\* a whole expression from position i: the loosest level
XorExpr(t, i) == Parse("xor", t, i, NaN)

\* the parse r of a text of n characters is the value of the text when it
\* succeeded and used the text up
Returns(r, n) ==
    IF r.ok /\ r.pos = n + 1 THEN [ok |-> TRUE, val |-> r.val] ELSE [ok |-> FALSE, val |-> NaN]

\* Function('"use strict"; return (' + expression + ')')(): [ok |-> FALSE]
\* stands for the error it throws
Function(expression) == Returns(XorExpr(expression, 1), Len(expression))

\* the expression handed to Function(): the three rewriting steps
Expression(func, v) == MapNames(PowRewrite(SubstituteX(Chars(func), v)))

\* evaluateFunction(func, x): [ok |-> FALSE] stands for the Error thrown from
\* the catch block
evaluateFunction(func, v) == Function(Expression(func, v))

\* the values of this.result: null, a number, an array of numbers
Null == [tag |-> "null", val |-> <<>>]
Number(v) == [tag |-> "number", val |-> <<v>>]
Vector(vs) == [tag |-> "vector", val |-> vs]

\* !this.result, were an array of zeros falsy as the number 0 is
NotResultOrZeros(r) ==
    \/ r.tag = "null"
    \/ r.tag = "number" /\ Falsy(r.val[1])
    \/ r.tag = "vector" /\ \A i \in 1..Len(r.val) : IsZero(r.val[i])

\* !this.result : null, 0 and NaN are falsy; every array is truthy
NotResult(r) == r.tag = "null" \/ (r.tag = "number" /\ Falsy(r.val[1]))

\* a Logger entry
Event(level, message) == [level |-> level, message |-> message]

\* getResults()
getResults(res, its) == [result |-> res, iterations |-> its]

\* params.tolerance <= 0 and params.maxIterations <= 0, the checks every
\* validateParams ends with (a NaN or missing field compares false)
NotPositive(v) == Le(v, Int2Num(0))

\* the records numbered from 0
IterationNumberFromZero(iter) == iter

\* iteration: iter + 1, the number a record is pushed with
IterationNumber(iter) == iter + 1

\* the loop condition written with <= : one pass too many
LoopConditionInclusive(iter, maxIterations) == Le(Int2Num(iter), maxIterations)

\* iter < maxIterations, the loop condition of every calculate
LoopCondition(iter, maxIterations) == Lt(Int2Num(iter), maxIterations)

---------------------------------------------------------------------------
(* Inputs *)

\* largest maxIterations among the inputs
MaxIter == 2

\* (tolerance, maxIterations): the valid pairs, each field missing (NaN),
\* zero and negative
ValidTolerances == {Frac(1, 100), Int2Num(2)}
Budgets ==
    {<<t, Int2Num(i)>> : t \in ValidTolerances, i \in 1..MaxIter}
    \cup {<<NaN, Int2Num(MaxIter)>>, <<Frac(1, 100), NaN>>,
          <<Int2Num(0), Int2Num(1)>>, <<Int2Num(-1), Int2Num(1)>>,
          <<Frac(1, 100), Int2Num(0)>>, <<Frac(1, 100), Int2Num(-1)>>}

\* [a, b] brackets: a sign change inside, a root at the midpoint, a root at
\* the left end, no sign change, a >= b, a missing bound
Brackets ==
    {<<Int2Num(1), Int2Num(2)>>, <<Int2Num(-1), Int2Num(1)>>,
     <<Int2Num(0), Int2Num(1)>>, <<Int2Num(2), Int2Num(3)>>,
     <<Int2Num(2), Int2Num(1)>>, <<NaN, Int2Num(1)>>}

BisectionParams ==
    {[function |-> f, a |-> ab[1], b |-> ab[2], tolerance |-> tm[1], maxIterations |-> tm[2]] :
        f \in {"x^2-2", "x", ""}, ab \in Brackets, tm \in Budgets}

\* (function, x0) for Newton-Raphson: x^2-2 from 1 and from the stationary
\* point 0; roots at 0; 1/x at its pole; a constant (f = 0, f' = 0); 0/x from
\* x0 = h, where f(x0 - h) is 0/0; a malformed text; a blank text; a missing x0
NewtonStarts ==
    {<<"x^2-2", Int2Num(1)>>, <<"x^2-2", Int2Num(0)>>, <<"x", Int2Num(1)>>,
     <<"x/4", Int2Num(1)>>, <<"1/x", Int2Num(0)>>, <<"0*x", Int2Num(1)>>,
     <<"0/x", Frac(1, 10000)>>, <<"x+", Int2Num(1)>>,
     <<" ", Int2Num(1)>>, <<"x", NaN>>}

NewtonParams ==
    {[function |-> fx[1], x0 |-> fx[2], tolerance |-> tm[1], maxIterations |-> tm[2]] :
        fx \in NewtonStarts, tm \in Budgets}

\* (g, x0) for Fixed-Point: a contraction towards 0, from 1 and from 0;
\* the constant 0; 1/x at its pole; 0/x at 0, which is 0/0; a malformed, a
\* blank text; a missing x0
FixedPointStarts ==
    {<<"x/2", Int2Num(1)>>, <<"x/2", Int2Num(0)>>, <<"0*x", Int2Num(1)>>,
     <<"1/x", Int2Num(0)>>, <<"0/x", Int2Num(0)>>, <<"x+", Int2Num(1)>>,
     <<"", Int2Num(1)>>, <<"x/2", NaN>>}

FixedPointParams ==
    {[function |-> gx[1], x0 |-> gx[2], tolerance |-> tm[1], maxIterations |-> tm[2]] :
        gx \in FixedPointStarts, tm \in Budgets}

\* linear systems (matrix, vector, initialGuess)
V2(a, b) == <<Int2Num(a), Int2Num(b)>>
Dominant == <<V2(2, 1), V2(1, 2)>>
LinearSystems ==
    {<<Dominant, V2(3, 3), V2(0, 0)>>,              \* strictly dominant, solution (1,1)
     <<Dominant, V2(3, 3), V2(1, 1)>>,              \* started at the solution
     <<Dominant, V2(0, 0), V2(0, 0)>>,              \* solution (0,0)
     <<<<V2(1, 2), V2(2, 1)>>, V2(3, 3), V2(0, 0)>>, \* not dominant, iterates grow
     <<<<V2(0, 1), V2(1, 1)>>, V2(3, 3), V2(0, 0)>>, \* zero on the diagonal
     <<<<V2(1, 2)>>, V2(3, 3), V2(0, 0)>>,           \* not square
     <<Dominant, <<Int2Num(3)>>, V2(0, 0)>>,        \* short vector
     <<Dominant, V2(3, 3), <<Int2Num(0)>>>>,        \* short initial guess
     <<<<V2(2, 1), V2(1, 1)>>, V2(3, 2), V2(0, 0)>>, \* row 2: |a_22| = |a_21|
     <<Dominant, <<PosInf, Int2Num(3)>>, V2(0, 0)>>, \* iterates that are not finite
     <<Dominant, V2(0, 0), <<Frac(1, 2), Int2Num(2)>>>>,       \* dominant, off the solution
     <<<<V2(2, 1), V2(-1, 2)>>, V2(0, 0), <<Frac(1, 5), Frac(8, 5)>>>>} \* dominant, mixed signs

\* a strictly dominant system with a large solution, (1000, 1000), and the
\* budget Jacobi needs to reach it from (0, 0) with tolerance 2
LongBudget == 4
LongSystem == <<<<V2(10, 1), V2(1, 10)>>, V2(11000, 11000), V2(0, 0)>>

LinearParams ==
    {[matrix |-> sys[1], vector |-> sys[2], initialGuess |-> sys[3],
      tolerance |-> tm[1], maxIterations |-> tm[2]] :
        sys \in LinearSystems, tm \in Budgets}
    \cup {[matrix |-> LongSystem[1], vector |-> LongSystem[2],
            initialGuess |-> LongSystem[3],
            tolerance |-> Int2Num(2), maxIterations |-> Int2Num(LongBudget)]}

\* interpolation points (xPoints, yPoints): three points of x^2+1; two
\* points; a repeated x with another between; a repeated x side by side;
\* arrays of different lengths; a single point; a value that is not a number
V3(a, b, c) == <<Int2Num(a), Int2Num(b), Int2Num(c)>>
PointSets ==
    {<<V3(0, 1, 2), V3(1, 2, 5)>>,
     <<V2(1, 3), V2(2, 0)>>,
     <<V3(1, 2, 1), V3(1, 2, 3)>>,
     <<V2(1, 1), V2(2, 3)>>,
     <<V3(0, 1, 2), V2(1, 2)>>,
     <<<<Int2Num(1)>>, <<Int2Num(1)>>>>,
     <<V2(0, 1), <<Int2Num(1), NaN>>>>}

\* xEval: the nodes, a point between them, a point outside, not a number
EvalPoints == {Int2Num(0), Int2Num(1), Int2Num(2), Int2Num(3), Frac(1, 2), Int2Num(-1), NaN}

LagrangeParams ==
    {[xPoints |-> pts[1], yPoints |-> pts[2], xEval |-> x] :
        pts \in PointSets, x \in EvalPoints}


\* params.n of Integration: the number (n/d) * 10^e.  e = 0 for the numbers
\* written without an exponent; the others are integers of 22 digits or more
TimesPow10(v, e) == [n |-> v.n, d |-> v.d, e |-> e]
Plain(v) == TimesPow10(v, 0)

\* n: 1, 2, 3, 10^21 and 25 * 10^20
Subdivisions ==
    {Plain(Int2Num(1)), Plain(Int2Num(2)), Plain(Int2Num(3)),
     TimesPow10(Int2Num(1), 21), TimesPow10(Int2Num(25), 20)}

\* [a, b] for Integration
Intervals == {<<Int2Num(0), Int2Num(1)>>, <<Int2Num(0), Int2Num(3)>>}

IntegrationArgs(f, a, b, c) == [function |-> f, a |-> a, b |-> b, n |-> c]

\* a parabola, 1/x from its pole on and a malformed text over the intervals
\* and subdivisions; then a blank text, a missing bound, a >= b, and n zero,
\* negative, not an integer, missing
IntegrationParams ==
    {IntegrationArgs(f, ab[1], ab[2], c) :
        f \in {"x^2-2", "1/x", "x+"}, ab \in Intervals, c \in Subdivisions}
    \cup {IntegrationArgs("", Int2Num(0), Int2Num(1), Plain(Int2Num(1))),
          IntegrationArgs("x", NaN, Int2Num(1), Plain(Int2Num(1))),
          IntegrationArgs("x", Int2Num(1), Int2Num(0), Plain(Int2Num(1))),
          IntegrationArgs("x", Int2Num(0), Int2Num(1), Plain(Int2Num(0))),
          IntegrationArgs("x", Int2Num(0), Int2Num(1), Plain(Int2Num(-1))),
          IntegrationArgs("x", Int2Num(0), Int2Num(1), Plain(Frac(5, 2))),
          IntegrationArgs("x", Int2Num(0), Int2Num(1), Plain(NaN))}

DifferentiationArgs(f, x, h, scheme) == [function |-> f, x |-> x, h |-> h, method |-> scheme]

\* a parabola at 1, 1/x at its pole and a malformed text, with h = 1/2 and
\* h = 2 (larger than 1), in the three schemes; then a blank text, a missing
\* x, h zero, negative, missing, and a scheme that does not exist
DifferentiationParams ==
    {DifferentiationArgs(fx[1], fx[2], h, scheme) :
        fx \in {<<"x^2-2", Int2Num(1)>>, <<"1/x", Int2Num(0)>>, <<"x+", Int2Num(1)>>},
        h \in {Frac(1, 2), Int2Num(2)},
        scheme \in {"forward", "backward", "central"}}
    \cup {DifferentiationArgs("", Int2Num(1), Frac(1, 2), "central"),
          DifferentiationArgs("x", NaN, Frac(1, 2), "central"),
          DifferentiationArgs("x", Int2Num(1), Int2Num(0), "central"),
          DifferentiationArgs("x", Int2Num(1), Int2Num(-1), "central"),
          DifferentiationArgs("x", Int2Num(1), NaN, "central"),
          DifferentiationArgs("x", Int2Num(1), Int2Num(2), "simpson")}

\* (func, x) of the direct calls of evaluateFunction
EvaluationPoints ==
    {<<f, Int2Num(v)>> : f \in {"x^2-2", "x", "1/x", "0/x", "x+", "", " ", "(x+1)^2", "2^x",
                                "x^x", "x^2+3*x-2", "2*x^2", "Math.abs(x)", "exp(x)"},
                         v \in {-1, 0, 2}}
    \cup {<<f, Int2Num(0)>> : f \in {"sin(x)", "cos(x)", "tan(x)", "log(x)", "sqrt(x)"}}
    \cup {<<"log(x)", Int2Num(1)>>, <<"log(x)", Int2Num(-1)>>, <<"sqrt(x)", Int2Num(4)>>,
          <<"sqrt(x)", Int2Num(-1)>>, <<"sin(x)", PosInf>>, <<"x", NaN>>}

\* the argument of a calculate call on the base class
BaseParams == {[function |-> "x"]}

---------------------------------------------------------------------------
(* State *)

VARIABLES
    method,      \* the class of the instance
    pc,          \* "idle"; inside calculate "loop" or "after" ("terms" in
                 \* LagrangePolynomial); "again": the caller is about to
                 \* repeat the call it just made
    params,      \* <<p>>: the argument of the call in progress (or to repeat)
    frame,       \* the local variables of the running calculate
    iterations,  \* this.iterations
    result,      \* this.result
    logs,        \* Logger entries of the latest call (calculate, evaluateFunction)
    outcome,     \* how the latest call ended: returned, or threw which Error
    passes,      \* passes through the loop body in the latest call
    ownRun,      \* result and iterations were last assigned by the latest call
    mode,        \* the caller's plan: "once"; "first" of two equal calls; "second"
    prev,        \* <<what the first of two equal calls yielded>>
    agree,       \* the second of two equal calls yielded what the first did
    evaluated    \* <<the latest direct call of evaluateFunction and its outcome>>

vars == <<method, pc, params, frame, iterations, result, logs, outcome,
          passes, ownRun, mode, prev, agree, evaluated>>

Methods == {"Bisection", "Newton", "FixedPoint", "Jacobi", "GaussSeidel", "Lagrange",
            "Integration", "Differentiation", "NumericalMethod"}

NoFrame == [iter |-> 0]
NoOutcome == [kind |-> "none", error |-> ""]
Returned == [kind |-> "returned", error |-> ""]
Threw(message) == [kind |-> "threw", error |-> message]

\* what a caller observes of a completed call: how it ended and, when it
\* returned, getResults() (a call that throws hands its caller the error only)
Yield(out, res, its) ==
    IF out.kind = "returned"
    THEN [kind |-> out.kind, error |-> out.error, got |-> <<getResults(res, its)>>]
    ELSE [kind |-> out.kind, error |-> out.error, got |-> <<>>]

\* constructor(name, logger): this.iterations = []; this.result = null
Init ==
    /\ method \in Methods
    /\ pc = "idle"
    /\ params = <<>>
    /\ frame = NoFrame
    /\ iterations = <<>>
    /\ result = Null
    /\ logs = <<>>
    /\ outcome = NoOutcome
    /\ passes = 0
    /\ ownRun = TRUE
    /\ mode = "once"
    /\ prev = <<>>
    /\ agree = TRUE
    /\ evaluated = <<>>

\* a new instance of the same class replaces the one that was used
NewInstance ==
    /\ pc \in {"idle", "again"}
    /\ outcome.kind # "none"
    /\ iterations' = <<>>
    /\ result' = Null
    /\ logs' = <<>>
    /\ outcome' = NoOutcome
    /\ ownRun' = TRUE
    /\ passes' = 0
    /\ agree' = TRUE
    /\ UNCHANGED <<method, pc, params, frame, mode, prev, evaluated>>

\* calculate(p) may be called: any p with plan m, or the repetition of p
CanCall(p, m) ==
    \/ pc = "idle" /\ m \in {"once", "first"}
    \/ pc = "again" /\ params = <<p>> /\ m = "second"

\* the call (plan m, argument p) ends, yielding y
Ended(m, p, y) ==
    /\ pc' = IF m = "first" THEN "again" ELSE "idle"
    /\ params' = IF m = "first" THEN <<p>> ELSE <<>>
    /\ prev' = IF m = "first" THEN <<y>> ELSE <<>>
    /\ agree' = IF m = "second" THEN prev = <<y>> ELSE TRUE
    /\ mode' = m
    /\ frame' = NoFrame
    /\ UNCHANGED <<method, evaluated>>

\* calculate ends by throwing `message`, having logged `evs`
ThrowWith(m, p, message, its, res, evs) ==
    /\ Ended(m, p, Yield(Threw(message), res, its))
    /\ iterations' = its
    /\ result' = res
    /\ logs' = evs
    /\ outcome' = Threw(message)

\* calculate returns
ReturnWith(m, p, its, res, evs) ==
    /\ Ended(m, p, Yield(Returned, res, its))
    /\ iterations' = its
    /\ result' = res
    /\ logs' = evs
    /\ outcome' = Returned

\* calculate goes on at `where` with locals f
GoOn(m, p, where, f, its, res, evs) ==
    /\ pc' = where
    /\ params' = <<p>>
    /\ mode' = m
    /\ frame' = f
    /\ iterations' = its
    /\ result' = res
    /\ logs' = evs
    /\ UNCHANGED <<method, outcome, prev, agree, evaluated>>

P == params[1]

\* calculate without its this.iterations = []
KeepIterations(its) == its

\* this.iterations = []; this.result = null;  (what calculate starts from)
ResetIterations(its) == <<>>
ResetResult(res) == Null

---------------------------------------------------------------------------
(* BisectionMethod *)

\* validateParams(params): "ok" or the message of the Error thrown
BisectionValidate(p) ==
    IF BlankText(p.function) THEN "La funcion no puede estar vacia"
    ELSE IF isNaN(p.a) \/ isNaN(p.b)
         THEN "Los limites del intervalo deben ser numeros validos"
    ELSE IF Ge(p.a, p.b) THEN "El limite inferior debe ser menor que el superior"
    ELSE IF NotPositive(p.tolerance) THEN "La tolerancia debe ser mayor que cero"
    ELSE IF NotPositive(p.maxIterations)
         THEN "El numero maximo de iteraciones debe ser mayor que cero"
    ELSE "ok"

\* the bindings calculate declares with const and later assigns to
BisectionConst == {"fa", "fb"}

\* the sign check written with >= : a root at an end of the bracket is refused
SameSignOrZero(fa, fb) == Ge(Mul(fa, fb), Int2Num(0))

\* if (fa * fb > 0)
SameSign(fa, fb) == Gt(Mul(fa, fb), Int2Num(0))

\* if (Math.abs(fc) < tolerance || error < tolerance)
BisectionConverged(fc, error, tolerance) ==
    Lt(Abs(fc), tolerance) \/ Lt(error, tolerance)

\* calculate(params) up to the loop
BisectionCalculate(p, m) ==
    /\ method = "Bisection"
    /\ CanCall(p, m)
    /\ passes' = 0
    /\ LET v == BisectionValidate(p)
           fa == evaluateFunction(p.function, p.a)
           fb == evaluateFunction(p.function, p.b)
       IN  IF v # "ok"
           THEN ThrowWith(m, p, v, iterations, result, <<>>) /\ ownRun' = FALSE
           ELSE IF ~fa.ok \/ ~fb.ok
           THEN /\ ThrowWith(m, p, "Funcion invalida", iterations, result,
                             <<Event("error", "Error evaluando funcion")>>)
                /\ ownRun' = FALSE
           ELSE IF SameSign(fa.val, fb.val)
           THEN /\ ThrowWith(m, p, "f(a) y f(b) deben tener signos opuestos",
                             iterations, result, <<>>)
                /\ ownRun' = FALSE
           ELSE /\ GoOn(m, p, "loop",
                        [iter |-> 0, aVal |-> p.a, bVal |-> p.b,
                         fa |-> fa.val, fb |-> fb.val],
                        ResetIterations(iterations), ResetResult(result), <<>>)
                /\ ownRun' = TRUE

\* one pass through the body of while (iter < maxIterations)
BisectionIterate ==
    /\ method = "Bisection"
    /\ pc = "loop"
    /\ LoopCondition(frame.iter, P.maxIterations)
    /\ passes' = passes + 1
    /\ UNCHANGED ownRun
    /\ LET c == Div(Add(frame.aVal, frame.bVal), Int2Num(2))
           fc == evaluateFunction(P.function, c)
           error == Div(Abs(Sub(frame.bVal, frame.aVal)), Int2Num(2))
           rec == [iteration |-> IterationNumber(frame.iter), a |-> frame.aVal,
                   b |-> frame.bVal, c |-> c, fc |-> fc.val, error |-> error]
           its == Append(iterations, rec)
           left == Lt(Mul(frame.fa, fc.val), Int2Num(0))
           assigned == IF left THEN "fb" ELSE "fa"
           narrowed == IF left
                       THEN [frame EXCEPT !.bVal = c, !.fb = fc.val]
                       ELSE [frame EXCEPT !.aVal = c, !.fa = fc.val]
       IN  IF ~fc.ok
           THEN ThrowWith(mode, P, "Funcion invalida", iterations, result,
                          Append(logs, Event("error", "Error evaluando funcion")))
           ELSE IF BisectionConverged(fc.val, error, P.tolerance)
           THEN GoOn(mode, P, "after", frame, its, Number(c),
                     logs \o <<Event("success", "Convergencia alcanzada"),
                               Event("success", "Raiz encontrada")>>)
           ELSE IF assigned \in BisectionConst
           THEN ThrowWith(mode, P, "Assignment to constant variable.",
                          its, result, logs)
           ELSE GoOn(mode, P, "loop", [narrowed EXCEPT !.iter = frame.iter + 1],
                     its, result, logs)

\* the loop is left: by break, or because iter < maxIterations is false
LoopLeft == pc = "after" \/ (pc = "loop" /\ ~LoopCondition(frame.iter, P.maxIterations))

\* the code after the loop: if (!this.result) { warning; result = (a+b)/2 }
BisectionFinish ==
    /\ method = "Bisection"
    /\ LoopLeft
    /\ UNCHANGED <<passes, ownRun>>
    /\ IF NotResult(result)
       THEN ReturnWith(mode, P, iterations,
                       Number(Div(Add(frame.aVal, frame.bVal), Int2Num(2))),
                       Append(logs, Event("warning", "Maximo de iteraciones alcanzado sin convergencia")))
       ELSE ReturnWith(mode, P, iterations, result, logs)

---------------------------------------------------------------------------
(* NewtonMethod *)

\* validateParams(params): "ok" or the message of the Error thrown
NewtonValidate(p) ==
    IF BlankText(p.function) THEN "La funcion f(x) no puede estar vacia"
    ELSE IF isNaN(p.x0) THEN "El valor inicial debe ser un numero valido"
    ELSE IF NotPositive(p.tolerance) THEN "La tolerancia debe ser mayor que cero"
    ELSE IF NotPositive(p.maxIterations)
         THEN "El numero maximo de iteraciones debe ser mayor que cero"
    ELSE "ok"

\* const h = 0.0001
DerivativeStep == Frac(1, 10000)

\* calculateDerivative(func, x): the central difference, or the Error thrown
calculateDerivative(func, v) ==
    LET f1 == evaluateFunction(func, Add(v, DerivativeStep))
        f2 == evaluateFunction(func, Sub(v, DerivativeStep))
    IN  IF f1.ok /\ f2.ok
        THEN [ok |-> TRUE,
              val |-> Div(Sub(f1.val, f2.val), Mul(Int2Num(2), DerivativeStep))]
        ELSE [ok |-> FALSE, val |-> NaN]

\* the exponents of the thresholds 1e-10 (derivative) and 1e10 (divergence)
SmallDerivativeExp == 10
DivergenceExp == 10

\* the derivative check left out
DerivativeUnchecked(fpx) == FALSE

\* if (Math.abs(fpx) < 1e-10)
DerivativeTooSmall(fpx) == LtNegPow10(Abs(fpx), SmallDerivativeExp)

\* if (error < tolerance || Math.abs(fx) < tolerance)
NewtonConverged(error, fx, tolerance) ==
    Lt(error, tolerance) \/ Lt(Abs(fx), tolerance)

\* if (Math.abs(xNext) > 1e10 || isNaN(xNext))
NewtonDiverges(xNext) == GtPow10(Abs(xNext), DivergenceExp) \/ isNaN(xNext)

\* calculate(params) up to the loop
NewtonCalculate(p, m) ==
    /\ method = "Newton"
    /\ CanCall(p, m)
    /\ passes' = 0
    /\ LET v == NewtonValidate(p)
       IN  IF v # "ok"
           THEN ThrowWith(m, p, v, iterations, result, <<>>) /\ ownRun' = FALSE
           ELSE /\ GoOn(m, p, "loop", [iter |-> 0, x |-> p.x0],
                        ResetIterations(iterations), ResetResult(result), <<>>)
                /\ ownRun' = TRUE

\* one pass through the body of while (iter < maxIterations)
NewtonIterate ==
    /\ method = "Newton"
    /\ pc = "loop"
    /\ LoopCondition(frame.iter, P.maxIterations)
    /\ passes' = passes + 1
    /\ UNCHANGED ownRun
    /\ LET x == frame.x
           fx == evaluateFunction(P.function, x)
           fpx == calculateDerivative(P.function, x)
           xNext == Sub(x, Div(fx.val, fpx.val))
           error == Abs(Sub(xNext, x))
           rec == [iteration |-> IterationNumber(frame.iter), x |-> x, fx |-> fx.val,
                   fpx |-> fpx.val, x_next |-> xNext, error |-> error]
           its == Append(iterations, rec)
       IN  IF ~fx.ok
           THEN ThrowWith(mode, P, "Funcion invalida", iterations, result,
                          logs \o <<Event("error", "Error evaluando funcion"),
                                    Event("error", "Error en iteracion")>>)
           ELSE IF ~fpx.ok
           THEN ThrowWith(mode, P, "Error al calcular la derivada", iterations, result,
                          logs \o <<Event("error", "Error evaluando funcion"),
                                    Event("error", "Error calculando derivada"),
                                    Event("error", "Error en iteracion")>>)
           ELSE IF DerivativeTooSmall(fpx.val)
           THEN ThrowWith(mode, P, "La derivada es muy pequena, el metodo puede no converger",
                          iterations, result,
                          Append(logs, Event("error", "Derivada muy pequena")))
           ELSE IF NewtonConverged(error, fx.val, P.tolerance)
           THEN GoOn(mode, P, "after", frame, its, Number(xNext),
                     logs \o <<Event("success", "Convergencia alcanzada"),
                               Event("success", "Raiz encontrada")>>)
           ELSE IF NewtonDiverges(xNext)
           THEN ThrowWith(mode, P, "El metodo diverge con el valor inicial dado",
                          its, result,
                          Append(logs, Event("error", "El metodo esta divergiendo")))
           ELSE GoOn(mode, P, "loop", [iter |-> frame.iter + 1, x |-> xNext],
                     its, result, logs)

\* the code after the loop: if (!this.result) { warning; this.result = x }
NewtonFinish ==
    /\ method = "Newton"
    /\ LoopLeft
    /\ UNCHANGED <<passes, ownRun>>
    /\ IF NotResult(result)
       THEN ReturnWith(mode, P, iterations, Number(frame.x),
                       Append(logs, Event("warning", "Maximo de iteraciones alcanzado sin convergencia")))
       ELSE ReturnWith(mode, P, iterations, result, logs)

---------------------------------------------------------------------------
(* FixedPointMethod *)

\* validateParams(params): "ok" or the message of the Error thrown
FixedPointValidate(p) ==
    IF BlankText(p.function) THEN "La funcion g(x) no puede estar vacia"
    ELSE IF isNaN(p.x0) THEN "El valor inicial debe ser un numero valido"
    ELSE IF NotPositive(p.tolerance) THEN "La tolerancia debe ser mayor que cero"
    ELSE IF NotPositive(p.maxIterations)
         THEN "El numero maximo de iteraciones debe ser mayor que cero"
    ELSE "ok"

\* if (error < tolerance)
FixedPointConverged(error, tolerance) == Lt(error, tolerance)

\* if (Math.abs(xNext) > 1e10)
FixedPointDiverges(xNext) == GtPow10(Abs(xNext), DivergenceExp)

\* calculate(params) up to the loop
FixedPointCalculate(p, m) ==
    /\ method = "FixedPoint"
    /\ CanCall(p, m)
    /\ passes' = 0
    /\ LET v == FixedPointValidate(p)
       IN  IF v # "ok"
           THEN ThrowWith(m, p, v, iterations, result, <<>>) /\ ownRun' = FALSE
           ELSE /\ GoOn(m, p, "loop", [iter |-> 0, x |-> p.x0],
                        ResetIterations(iterations), ResetResult(result), <<>>)
                /\ ownRun' = TRUE

\* one pass through the body of while (iter < maxIterations)
FixedPointIterate ==
    /\ method = "FixedPoint"
    /\ pc = "loop"
    /\ LoopCondition(frame.iter, P.maxIterations)
    /\ passes' = passes + 1
    /\ UNCHANGED ownRun
    /\ LET x == frame.x
           xNext == evaluateFunction(P.function, x)
           error == Abs(Sub(xNext.val, x))
           rec == [iteration |-> IterationNumber(frame.iter), x |-> x, gx |-> xNext.val,
                   error |-> error]
           its == Append(iterations, rec)
       IN  IF ~xNext.ok
           THEN ThrowWith(mode, P, "Funcion invalida", iterations, result,
                          logs \o <<Event("error", "Error evaluando funcion"),
                                    Event("error", "Error evaluando g")>>)
           ELSE IF FixedPointConverged(error, P.tolerance)
           THEN GoOn(mode, P, "after", frame, its, Number(xNext.val),
                     logs \o <<Event("success", "Convergencia alcanzada"),
                               Event("success", "Punto fijo encontrado")>>)
           ELSE IF FixedPointDiverges(xNext.val)
           THEN ThrowWith(mode, P, "El metodo diverge con el valor inicial dado",
                          its, result,
                          Append(logs, Event("error", "La funcion esta divergiendo")))
           ELSE GoOn(mode, P, "loop", [iter |-> frame.iter + 1, x |-> xNext.val],
                     its, result, logs)

\* the code after the loop: if (!this.result) { warning; this.result = x }
FixedPointFinish ==
    /\ method = "FixedPoint"
    /\ LoopLeft
    /\ UNCHANGED <<passes, ownRun>>
    /\ IF NotResult(result)
       THEN ReturnWith(mode, P, iterations, Number(frame.x),
                       Append(logs, Event("warning", "Maximo de iteraciones alcanzado sin convergencia")))
       ELSE ReturnWith(mode, P, iterations, result, logs)

---------------------------------------------------------------------------
(* Arithmetic on arrays, shared by GaussSeidelMethod and GaussJacobiMethod *)

\* let sum = 0; for (...) sum += s[k]
RECURSIVE SumFrom(_, _, _)
SumFrom(s, k, acc) == IF k > Len(s) THEN acc ELSE SumFrom(s, k + 1, Add(acc, s[k]))
Sum(s) == SumFrom(s, 1, Int2Num(0))

\* let error = 0; for (...) error = Math.max(error, s[k])
RECURSIVE MaxFrom(_, _, _)
MaxFrom(s, k, acc) == IF k > Len(s) THEN acc ELSE MaxFrom(s, k + 1, Max(acc, s[k]))
MaxOf(s) == MaxFrom(s, 1, Int2Num(0))

Square(v) == Mul(v, v)

\* Math.sqrt(q) is kept as its radicand q: [radicand |-> q] stands for sqrt(q)
Sqrt(q) == [radicand |-> q]

\* Math.sqrt(q) < t
SqrtLt(q, t) == Gt(t, Int2Num(0)) /\ Lt(q, Square(t))

\* sum of |a_ij| over j # i
OffDiagonal(matrix, i) ==
    Sum([j \in 1..Len(matrix) |-> IF i = j THEN Int2Num(0) ELSE Abs(matrix[i][j])])

\* sum of a_ij * x_j over j # i
OffDiagonalDot(matrix, i, x) ==
    Sum([j \in 1..Len(matrix) |-> IF i = j THEN Int2Num(0) ELSE Mul(matrix[i][j], x[j])])

\* sum of a_ij * x_j over all j
RowDot(matrix, i, x) == Sum([j \in 1..Len(matrix) |-> Mul(matrix[i][j], x[j])])

\* the error loop written with Math.min: from error = 0 it stays 0
MinNormError(x, y) ==
    LET d == [i \in 1..Len(x) |-> Abs(Sub(x[i], y[i]))]
    IN  IF \E i \in 1..Len(d) : isNaN(d[i]) THEN NaN ELSE Int2Num(0)

\* max over i of |x[i] - y[i]|
MaxNormError(x, y) == MaxOf([i \in 1..Len(x) |-> Abs(Sub(x[i], y[i]))])

\* the square of the norm of A x - b
ResidualSquared(matrix, vector, x) ==
    Sum([i \in 1..Len(matrix) |-> Square(Sub(RowDot(matrix, i, x), vector[i]))])

\* if (Math.abs(params.matrix[i][i]) < 1e-10), its exponent
ZeroDiagonalExp == 10

\* the dominance test written with < : a row with |a_ii| equal to the sum of
\* the others passes unwarned
RECURSIVE DominanceWarningsStrict(_, _)
DominanceWarningsStrict(matrix, i) ==
    IF i > Len(matrix) THEN <<>>
    ELSE (IF Lt(Abs(matrix[i][i]), OffDiagonal(matrix, i))
          THEN <<Event("warning", "Fila " \o ToString(i) \o ": La matriz no es estrictamente diagonal dominante"),
                 Event("warning", "El metodo podria no converger")>>
          ELSE <<>>) \o DominanceWarningsStrict(matrix, i + 1)

\* the two warnings of each row that is not strictly dominant, in row order
RECURSIVE DominanceWarnings(_, _)
DominanceWarnings(matrix, i) ==
    IF i > Len(matrix) THEN <<>>
    ELSE (IF Le(Abs(matrix[i][i]), OffDiagonal(matrix, i))
          THEN <<Event("warning", "Fila " \o ToString(i) \o ": La matriz no es estrictamente diagonal dominante"),
                 Event("warning", "El metodo podria no converger")>>
          ELSE <<>>) \o DominanceWarnings(matrix, i + 1)

---------------------------------------------------------------------------
(* GaussSeidelMethod *)

\* validateParams(params): the message of the Error thrown or "ok", and the
\* warnings logged on the way
GaussSeidelValidate(p) ==
    LET n == Len(p.matrix)
        warnings == DominanceWarnings(p.matrix, 1)
    IN  IF \E i \in 1..n : Len(p.matrix[i]) # n
        THEN [error |-> "La matriz debe ser cuadrada", logged |-> <<>>]
        ELSE IF Len(p.vector) # n
        THEN [error |-> "El vector de terminos independientes debe tener el mismo tamano que la matriz",
              logged |-> <<>>]
        ELSE IF Len(p.initialGuess) # n
        THEN [error |-> "El vector inicial debe tener el mismo tamano que la matriz",
              logged |-> <<>>]
        ELSE IF \E i \in 1..n : LtNegPow10(Abs(p.matrix[i][i]), ZeroDiagonalExp)
        THEN [error |-> "Elemento diagonal es cero o muy pequeno", logged |-> warnings]
        ELSE IF NotPositive(p.tolerance)
        THEN [error |-> "La tolerancia debe ser mayor que cero", logged |-> warnings]
        ELSE IF NotPositive(p.maxIterations)
        THEN [error |-> "El numero maximo de iteraciones debe ser mayor que cero",
              logged |-> warnings]
        ELSE [error |-> "ok", logged |-> warnings]

\* for (i = 0; i < n; i++) x[i] = (vector[i] - sum) / matrix[i][i], in place
RECURSIVE GaussSeidelSweep(_, _, _, _)
GaussSeidelSweep(matrix, vector, x, i) ==
    IF i > Len(matrix) THEN x
    ELSE GaussSeidelSweep(matrix, vector,
            [x EXCEPT ![i] = Div(Sub(vector[i], OffDiagonalDot(matrix, i, x)),
                                 matrix[i][i])],
            i + 1)

\* sqrt(sum (x[i]-xOld[i])^2) / sqrt(sum x[i]^2), as a radicand
RelativeError(x, xOld) ==
    Sqrt(Div(Sum([i \in 1..Len(x) |-> Square(Sub(x[i], xOld[i]))]),
             Sum([i \in 1..Len(x) |-> Square(x[i])])))

\* the convergence test written with && : both errors must be small
GaussSeidelConvergedBoth(error, relativeError, tolerance) ==
    Lt(error, tolerance) /\ SqrtLt(relativeError.radicand, tolerance)

\* if (error < tolerance || relativeError < tolerance)
GaussSeidelConverged(error, relativeError, tolerance) ==
    Lt(error, tolerance) \/ SqrtLt(relativeError.radicand, tolerance)

\* calculate(params) up to the loop
GaussSeidelCalculate(p, m) ==
    /\ method = "GaussSeidel"
    /\ CanCall(p, m)
    /\ passes' = 0
    /\ LET v == GaussSeidelValidate(p)
       IN  IF v.error # "ok"
           THEN ThrowWith(m, p, v.error, iterations, result, v.logged) /\ ownRun' = FALSE
           ELSE /\ GoOn(m, p, "loop",
                        [iter |-> 0, x |-> p.initialGuess, xOld |-> p.initialGuess],
                        ResetIterations(iterations), ResetResult(result), v.logged)
                /\ ownRun' = TRUE

\* one pass through the body of while (iter < maxIterations)
GaussSeidelIterate ==
    /\ method = "GaussSeidel"
    /\ pc = "loop"
    /\ LoopCondition(frame.iter, P.maxIterations)
    /\ passes' = passes + 1
    /\ UNCHANGED ownRun
    /\ LET xOld == frame.x
           x == GaussSeidelSweep(P.matrix, P.vector, frame.x, 1)
           error == MaxNormError(x, xOld)
           residual == Sqrt(ResidualSquared(P.matrix, P.vector, x))
           relativeError == RelativeError(x, xOld)
           rec == [iteration |-> IterationNumber(frame.iter), xOld |-> xOld, x |-> x,
                   error |-> error, relativeError |-> relativeError,
                   residual |-> residual]
           its == Append(iterations, rec)
       IN  IF GaussSeidelConverged(error, relativeError, P.tolerance)
           THEN GoOn(mode, P, "after", [frame EXCEPT !.x = x, !.xOld = xOld],
                     its, Vector(x),
                     logs \o <<Event("success", "Convergencia alcanzada"),
                               Event("success", "Solucion")>>)
           ELSE GoOn(mode, P, "loop",
                     [iter |-> frame.iter + 1, x |-> x, xOld |-> xOld],
                     its, result, logs)

\* the code after the loop: if (!this.result) { warning; result = [...x]; warning }
GaussSeidelFinish ==
    /\ method = "GaussSeidel"
    /\ LoopLeft
    /\ UNCHANGED <<passes, ownRun>>
    /\ IF NotResult(result)
       THEN ReturnWith(mode, P, iterations, Vector(frame.x),
                       logs \o <<Event("warning", "Maximo de iteraciones alcanzado sin convergencia"),
                                 Event("warning", "Mejor aproximacion")>>)
       ELSE ReturnWith(mode, P, iterations, result, logs)

---------------------------------------------------------------------------
(* GaussJacobiMethod *)

\* validateParams without its loop over the diagonal
GaussJacobiValidateNoDiagonal(p) ==
    LET v == GaussSeidelValidate(p)
    IN  IF v.error # "Elemento diagonal es cero o muy pequeno" THEN v
        ELSE IF NotPositive(p.tolerance)
        THEN [error |-> "La tolerancia debe ser mayor que cero", logged |-> v.logged]
        ELSE IF NotPositive(p.maxIterations)
        THEN [error |-> "El numero maximo de iteraciones debe ser mayor que cero",
              logged |-> v.logged]
        ELSE [error |-> "ok", logged |-> v.logged]

\* validateParams(params): the message of the Error thrown or "ok", and the
\* warnings logged on the way
GaussJacobiValidate(p) ==
    LET n == Len(p.matrix)
        warnings == DominanceWarnings(p.matrix, 1)
    IN  IF \E i \in 1..n : Len(p.matrix[i]) # n
        THEN [error |-> "La matriz debe ser cuadrada", logged |-> <<>>]
        ELSE IF Len(p.vector) # n
        THEN [error |-> "El vector de terminos independientes debe tener el mismo tamano que la matriz",
              logged |-> <<>>]
        ELSE IF Len(p.initialGuess) # n
        THEN [error |-> "El vector inicial debe tener el mismo tamano que la matriz",
              logged |-> <<>>]
        ELSE IF \E i \in 1..n : LtNegPow10(Abs(p.matrix[i][i]), ZeroDiagonalExp)
        THEN [error |-> "Elemento diagonal es cero o muy pequeno", logged |-> warnings]
        ELSE IF NotPositive(p.tolerance)
        THEN [error |-> "La tolerancia debe ser mayor que cero", logged |-> warnings]
        ELSE IF NotPositive(p.maxIterations)
        THEN [error |-> "El numero maximo de iteraciones debe ser mayor que cero",
              logged |-> warnings]
        ELSE [error |-> "ok", logged |-> warnings]

\* the sweep of Jacobi written into the working iterate itself
GaussJacobiSweepInPlace(matrix, vector, x) == GaussSeidelSweep(matrix, vector, x, 1)

\* for (i = 0; i < n; i++) xNew[i] = (vector[i] - sum) / matrix[i][i]
GaussJacobiSweep(matrix, vector, x) ==
    [i \in 1..Len(matrix) |->
        Div(Sub(vector[i], OffDiagonalDot(matrix, i, x)), matrix[i][i])]

\* if (error < tolerance)
GaussJacobiConverged(error, tolerance) == Lt(error, tolerance)

\* calculate(params) up to the loop; xNew = new Array(n).fill(0)
GaussJacobiCalculate(p, m) ==
    /\ method = "Jacobi"
    /\ CanCall(p, m)
    /\ passes' = 0
    /\ LET v == GaussJacobiValidate(p)
       IN  IF v.error # "ok"
           THEN ThrowWith(m, p, v.error, iterations, result, v.logged) /\ ownRun' = FALSE
           ELSE /\ GoOn(m, p, "loop",
                        [iter |-> 0, x |-> p.initialGuess,
                         xNew |-> [i \in 1..Len(p.matrix) |-> Int2Num(0)]],
                        ResetIterations(iterations), ResetResult(result), v.logged)
                /\ ownRun' = TRUE

\* one pass through the body of while (iter < maxIterations)
GaussJacobiIterate ==
    /\ method = "Jacobi"
    /\ pc = "loop"
    /\ LoopCondition(frame.iter, P.maxIterations)
    /\ passes' = passes + 1
    /\ UNCHANGED ownRun
    /\ LET x == frame.x
           xNew == GaussJacobiSweep(P.matrix, P.vector, x)
           error == MaxNormError(xNew, x)
           residual == Sqrt(ResidualSquared(P.matrix, P.vector, xNew))
           rec == [iteration |-> IterationNumber(frame.iter), x |-> x, xNew |-> xNew,
                   error |-> error, residual |-> residual]
           its == Append(iterations, rec)
       IN  IF GaussJacobiConverged(error, P.tolerance)
           THEN GoOn(mode, P, "after", [frame EXCEPT !.xNew = xNew],
                     its, Vector(xNew),
                     logs \o <<Event("success", "Convergencia alcanzada"),
                               Event("success", "Solucion")>>)
           ELSE GoOn(mode, P, "loop",
                     [iter |-> frame.iter + 1, x |-> xNew, xNew |-> xNew],
                     its, result, logs)

\* the code after the loop: if (!this.result) { warning; result = [...xNew] }
GaussJacobiFinish ==
    /\ method = "Jacobi"
    /\ LoopLeft
    /\ UNCHANGED <<passes, ownRun>>
    /\ IF NotResult(result)
       THEN ReturnWith(mode, P, iterations, Vector(frame.xNew),
                       Append(logs, Event("warning", "Maximo de iteraciones alcanzado sin convergencia")))
       ELSE ReturnWith(mode, P, iterations, result, logs)

---------------------------------------------------------------------------
(* LagrangePolynomial *)

\* new Set(xPoints).size !== xPoints.length, comparing neighbours only
RepeatedAdjacent(xPoints) ==
    \E i \in 1..(Len(xPoints) - 1) : xPoints[i] = xPoints[i + 1]

\* uniqueX = new Set(params.xPoints); uniqueX.size !== params.xPoints.length
Repeated(xPoints) ==
    Cardinality({xPoints[i] : i \in 1..Len(xPoints)}) # Len(xPoints)

\* validateParams(params): "ok" or the message of the Error thrown
LagrangeValidate(p) ==
    IF Len(p.xPoints) # Len(p.yPoints)
    THEN "Los arrays de x e y deben tener el mismo tamano"
    ELSE IF Len(p.xPoints) < 2
    THEN "Se necesitan al menos 2 puntos para la interpolacion"
    ELSE IF Repeated(p.xPoints)
    THEN "Los valores de x no pueden estar repetidos"
    ELSE IF \E i \in 1..Len(p.xPoints) : isNaN(p.xPoints[i]) \/ isNaN(p.yPoints[i])
    THEN "El punto contiene valores invalidos"
    ELSE IF isNaN(p.xEval)
    THEN "El punto a evaluar debe ser un numero valido"
    ELSE "ok"

\* for (j ...) if (i !== j) acc *= num(j) / den(j), from j on
RECURSIVE BasisFrom(_, _, _, _, _)
BasisFrom(xPoints, i, x, j, li) ==
    IF j > Len(xPoints) THEN li
    ELSE IF i = j THEN BasisFrom(xPoints, i, x, j + 1, li)
    ELSE BasisFrom(xPoints, i, x, j + 1,
                   Mul(li, Div(Sub(x, xPoints[j]), Sub(xPoints[i], xPoints[j]))))

\* numerator *= (xEval - xPoints[j]) over j !== i, from j on
RECURSIVE NumeratorFrom(_, _, _, _, _)
NumeratorFrom(xPoints, i, x, j, acc) ==
    IF j > Len(xPoints) THEN acc
    ELSE IF i = j THEN NumeratorFrom(xPoints, i, x, j + 1, acc)
    ELSE NumeratorFrom(xPoints, i, x, j + 1, Mul(acc, Sub(x, xPoints[j])))

\* the basis polynomial without its denominators
calculateBasisPolynomialUndivided(xPoints, i, x) ==
    NumeratorFrom(xPoints, i, x, 1, Int2Num(1))

\* calculateBasisPolynomial(xPoints, i, x): L_i(x)
calculateBasisPolynomial(xPoints, i, x) == BasisFrom(xPoints, i, x, 1, Int2Num(1))

\* denominator *= (xPoints[i] - xPoints[j]) over j !== i, from j on
RECURSIVE DenominatorFrom(_, _, _, _)
DenominatorFrom(xPoints, i, j, acc) ==
    IF j > Len(xPoints) THEN acc
    ELSE IF i = j THEN DenominatorFrom(xPoints, i, j + 1, acc)
    ELSE DenominatorFrom(xPoints, i, j + 1, Mul(acc, Sub(xPoints[i], xPoints[j])))

\* pxi += yPoints[j] * calculateBasisPolynomial(xPoints, j, x), from j on
RECURSIVE PolynomialFrom(_, _, _, _, _)
PolynomialFrom(xPoints, yPoints, x, j, acc) ==
    IF j > Len(xPoints) THEN acc
    ELSE PolynomialFrom(xPoints, yPoints, x, j + 1,
                        Add(acc, Mul(yPoints[j], calculateBasisPolynomial(xPoints, j, x))))

\* maxError = Math.max(maxError, Math.abs(pxi - yPoints[i])), from i on
RECURSIVE VerificationError(_, _, _, _)
VerificationError(xPoints, yPoints, i, maxError) ==
    IF i > Len(xPoints) THEN maxError
    ELSE VerificationError(xPoints, yPoints, i + 1,
             Max(maxError,
                 Abs(Sub(PolynomialFrom(xPoints, yPoints, xPoints[i], 1, Int2Num(0)),
                         yPoints[i]))))

\* if (maxError > 1e-10): the exponent
InterpolationErrorExp == 10

\* a > 1e-k for a >= 0
GtNegPow10(a, k) ==
    ~isNaN(a) /\ (IF a.d = 0 THEN a.n > 0 ELSE a.n > 0 /\ ~GeP(a.d, a.n, k))

\* the test for extrapolation with its first half left out
ExtrapolatingAbove(xPoints, xEval) ==
    \A i \in 1..Len(xPoints) : Gt(xEval, xPoints[i])

\* xEval < Math.min(...xPoints) || xEval > Math.max(...xPoints)
Extrapolating(xPoints, xEval) ==
    \/ \A i \in 1..Len(xPoints) : Lt(xEval, xPoints[i])
    \/ \A i \in 1..Len(xPoints) : Gt(xEval, xPoints[i])

\* calculate(params) up to the loop over the terms: let result = 0;
\* this.iterations = []  (this.result keeps its value until the loop is over)
LagrangeCalculate(p, m) ==
    /\ method = "Lagrange"
    /\ CanCall(p, m)
    /\ passes' = 0
    /\ LET v == LagrangeValidate(p)
       IN  IF v # "ok"
           THEN ThrowWith(m, p, v, iterations, result, <<>>) /\ ownRun' = FALSE
           ELSE /\ GoOn(m, p, "terms", [iter |-> 0, sum |-> Int2Num(0)],
                        ResetIterations(iterations), result, <<>>)
                /\ ownRun' = TRUE

\* one pass through the body of for (i = 0; i < n; i++)
LagrangeTerm ==
    /\ method = "Lagrange"
    /\ pc = "terms"
    /\ frame.iter < Len(P.xPoints)
    /\ passes' = passes + 1
    /\ UNCHANGED ownRun
    /\ LET i == frame.iter + 1
           li == calculateBasisPolynomial(P.xPoints, i, P.xEval)
           term == Mul(P.yPoints[i], li)
           sum == Add(frame.sum, term)
           rec == [i |-> frame.iter, x_i |-> P.xPoints[i], y_i |-> P.yPoints[i],
                   li |-> li,
                   numerador |-> NumeratorFrom(P.xPoints, i, P.xEval, 1, Int2Num(1)),
                   denominador |-> DenominatorFrom(P.xPoints, i, 1, Int2Num(1)),
                   term |-> term, suma |-> sum]
       IN  GoOn(mode, P, "terms", [iter |-> i, sum |-> sum],
                Append(iterations, rec), result, logs)

\* the code after the loop: this.result = result; the verification at the
\* given points; the warnings
LagrangeFinish ==
    /\ method = "Lagrange"
    /\ pc = "terms"
    /\ frame.iter = Len(P.xPoints)
    /\ UNCHANGED <<passes, ownRun>>
    /\ LET maxError == VerificationError(P.xPoints, P.yPoints, 1, Int2Num(0))
           inexact == IF GtNegPow10(maxError, InterpolationErrorExp)
                      THEN <<Event("warning", "Error maximo en la interpolacion")>>
                      ELSE <<>>
           outside == IF Extrapolating(P.xPoints, P.xEval)
                      THEN <<Event("warning", "ADVERTENCIA: x esta fuera del intervalo"),
                             Event("warning", "Se esta realizando extrapolacion, los resultados pueden ser menos confiables")>>
                      ELSE <<>>
       IN  ReturnWith(mode, P, iterations, Number(frame.sum),
                      logs \o inexact \o <<Event("success", "Valor interpolado")>> \o outside)

---------------------------------------------------------------------------
(* NumericalIntegration *)

\* parseFloat(v) of a number v: String(v) read back, which is v again
parseFloat(v) == v

\* a number is written with an exponent from 10^21 on
ExponentFormFrom == 21

RECURSIVE DigitCount(_)
DigitCount(k) == IF k < 10 THEN 1 ELSE 1 + DigitCount(k \div 10)
RECURSIVE LeadingDigit(_)
LeadingDigit(k) == IF k < 10 THEN k ELSE LeadingDigit(k \div 10)

\* parseInt(c) of a positive integer c: String(c) is "d.ddde+k" from 10^21
\* on, of which parseInt reads the leading d; below that it is the digits of c
parseInt(c) ==
    CASE c.e = 0 -> Int2Num(c.n \div c.d)
      [] c.e > 0 /\ DigitCount(c.n) + c.e > ExponentFormFrom -> Int2Num(LeadingDigit(c.n))

\* Number.isInteger(params.n)
IsInteger(c) == c.d = 1

\* validateParams(params): "ok" or the message of the Error thrown
IntegrationValidate(p) ==
    IF BlankText(p.function) THEN "La funcion no puede estar vacia"
    ELSE IF isNaN(p.a) \/ isNaN(p.b)
    THEN "Los limites de integracion deben ser numeros validos"
    ELSE IF Ge(p.a, p.b) THEN "El limite inferior debe ser menor que el superior"
    ELSE IF Falsy([n |-> p.n.n, d |-> p.n.d]) \/ p.n.n <= 0
    THEN "El numero de subdivisiones debe ser mayor que cero"
    ELSE IF ~IsInteger(p.n) THEN "El numero de subdivisiones debe ser un entero"
    ELSE "ok"

\* weight = 1; if (i === 0 || i === nVal) weight = 0.5
Weight(i, nVal) == IF i = 0 \/ i = nVal THEN Frac(1, 2) ELSE Int2Num(1)

\* the Simpson loop from i on: the sum, or the failure of an evaluation
RECURSIVE SimpsonSum(_, _, _, _, _, _)
SimpsonSum(func, aVal, h, nVal, i, acc) ==
    IF i > nVal THEN [ok |-> TRUE, val |-> acc]
    ELSE LET fx == evaluateFunction(func, Add(aVal, Mul(Int2Num(i), h)))
             k == IF i = 0 \/ i = nVal THEN 1 ELSE IF i % 2 = 1 THEN 4 ELSE 2
         IN  IF ~fx.ok THEN [ok |-> FALSE, val |-> NaN]
             ELSE SimpsonSum(func, aVal, h, nVal, i + 1, Add(acc, Mul(Int2Num(k), fx.val)))

\* calculate(params) up to the loop: the conversions, h, this.iterations = []
\* (this.result keeps its value until the loop is over)
IntegrationCalculate(p, m) ==
    /\ method = "Integration"
    /\ CanCall(p, m)
    /\ passes' = 0
    /\ LET v == IntegrationValidate(p)
           aVal == parseFloat(p.a)
           bVal == parseFloat(p.b)
           nVal == parseInt(p.n)
       IN  IF v # "ok"
           THEN ThrowWith(m, p, v, iterations, result, <<>>) /\ ownRun' = FALSE
           ELSE /\ GoOn(m, p, "points",
                        [iter |-> 0, sum |-> Int2Num(0), aVal |-> aVal, bVal |-> bVal,
                         nVal |-> nVal.n, h |-> Div(Sub(bVal, aVal), nVal)],
                        ResetIterations(iterations), result, <<>>)
                /\ ownRun' = TRUE

\* one pass through the body of for (i = 0; i <= nVal; i++)
IntegrationPoint ==
    /\ method = "Integration"
    /\ pc = "points"
    /\ frame.iter <= frame.nVal
    /\ passes' = passes + 1
    /\ LET i == frame.iter
           x == Add(frame.aVal, Mul(Int2Num(i), frame.h))
           fx == evaluateFunction(P.function, x)
           weight == Weight(i, frame.nVal)
           sum == Add(frame.sum, Mul(weight, fx.val))
           rec == [i |-> i, x |-> x, fx |-> fx.val, weight |-> weight,
                   contribution |-> Mul(Mul(weight, fx.val), frame.h),
                   sumPartial |-> Mul(sum, frame.h)]
       IN  IF ~fx.ok
           THEN /\ ThrowWith(mode, P, "Funcion invalida", iterations, result,
                             logs \o <<Event("error", "Error evaluando funcion"),
                                       Event("error", "Error evaluando f(x)")>>)
                /\ ownRun' = FALSE
           ELSE /\ GoOn(mode, P, "points", [frame EXCEPT !.iter = i + 1, !.sum = sum],
                        Append(iterations, rec), result, logs)
                /\ UNCHANGED ownRun

\* the code after the loop: this.result = sum * h; Simpson's rule if nVal is
\* even, for the log
IntegrationFinish ==
    /\ method = "Integration"
    /\ pc = "points"
    /\ frame.iter > frame.nVal
    /\ UNCHANGED <<passes, ownRun>>
    /\ LET trapezoid == Number(Mul(frame.sum, frame.h))
           simpson == SimpsonSum(P.function, frame.aVal, frame.h, frame.nVal, 0, Int2Num(0))
           done == <<Event("success", "Integral calculada"), Event("success", "Integral")>>
       IN  IF frame.nVal % 2 # 0
           THEN ReturnWith(mode, P, iterations, trapezoid, logs \o done)
           ELSE IF ~simpson.ok
           THEN ThrowWith(mode, P, "Funcion invalida", iterations, trapezoid,
                          Append(logs, Event("error", "Error evaluando funcion")))
           ELSE ReturnWith(mode, P, iterations, trapezoid,
                           logs \o <<Event("info", "Resultado por trapecio"),
                                     Event("info", "Resultado por Simpson"),
                                     Event("info", "Diferencia")>> \o done)

---------------------------------------------------------------------------
(* NumericalDifferentiation *)

\* if (params.h < 1e-10): the exponent
SmallStepExp == 10

\* validateParams(params): the message of the Error thrown or "ok", and the
\* warnings logged on the way
DifferentiationValidate(p) ==
    LET large == IF Gt(p.h, Int2Num(1))
                 THEN <<Event("warning", "El tamano del paso h es muy grande, los resultados pueden ser imprecisos")>>
                 ELSE <<>>
        small == IF LtNegPow10(p.h, SmallStepExp)
                 THEN <<Event("warning", "El tamano del paso h es muy pequeno, pueden ocurrir errores de redondeo")>>
                 ELSE <<>>
    IN  IF BlankText(p.function)
        THEN [error |-> "La funcion no puede estar vacia", logged |-> <<>>]
        ELSE IF isNaN(p.x)
        THEN [error |-> "El punto x debe ser un numero valido", logged |-> <<>>]
        ELSE IF isNaN(p.h) \/ NotPositive(p.h)
        THEN [error |-> "El tamano del paso h debe ser un numero positivo", logged |-> <<>>]
        ELSE IF p.method \notin {"forward", "backward", "central"}
        THEN [error |-> "El metodo debe ser: forward, backward o central",
              logged |-> large \o small]
        ELSE [error |-> "ok", logged |-> large \o small]

NoRecord == [ok |-> FALSE, rec |-> [derivative |-> NaN]]
Two == Int2Num(2)

\* the record forwardDifference returns from its three evaluations, or the
\* failure of one of them
ForwardRecord(x, h, fx, fxh, fx2h) ==
    IF ~fx.ok \/ ~fxh.ok \/ ~fx2h.ok THEN NoRecord
    ELSE [ok |-> TRUE,
          rec |-> [method |-> "Diferencias hacia adelante", x |-> x, fx |-> fx.val,
                   xPlusH |-> Add(x, h), fxPlusH |-> fxh.val, h |-> h,
                   derivative |-> Div(Sub(fxh.val, fx.val), h),
                   errorEstimate |->
                       Abs(Div(Mul(h, Div(Add(Sub(fx2h.val, Mul(Two, fxh.val)), fx.val),
                                          Mul(h, h))),
                               Two))]]

\* forwardDifference(func, x, h): fx, fxh, fx2h and the record
forwardDifference(func, x, h) ==
    ForwardRecord(x, h, evaluateFunction(func, x), evaluateFunction(func, Add(x, h)),
                  evaluateFunction(func, Add(x, Mul(Two, h))))

\* the record backwardDifference returns from its three evaluations
BackwardRecord(x, h, fx, fxh, fx2h) ==
    IF ~fx.ok \/ ~fxh.ok \/ ~fx2h.ok THEN NoRecord
    ELSE [ok |-> TRUE,
          rec |-> [method |-> "Diferencias hacia atras", x |-> x, fx |-> fx.val,
                   xMinusH |-> Sub(x, h), fxMinusH |-> fxh.val, h |-> h,
                   derivative |-> Div(Sub(fx.val, fxh.val), h),
                   errorEstimate |->
                       Abs(Div(Mul(h, Div(Add(Sub(fx.val, Mul(Two, fxh.val)), fx2h.val),
                                          Mul(h, h))),
                               Two))]]

\* backwardDifference(func, x, h)
backwardDifference(func, x, h) ==
    BackwardRecord(x, h, evaluateFunction(func, x), evaluateFunction(func, Sub(x, h)),
                   evaluateFunction(func, Sub(x, Mul(Two, h))))

\* the record centralDifference returns from its five evaluations
CentralRecord(x, h, fxhPlus, fxhMinus, fx, fx2hPlus, fx2hMinus) ==
    IF ~fxhPlus.ok \/ ~fxhMinus.ok \/ ~fx.ok \/ ~fx2hPlus.ok \/ ~fx2hMinus.ok
    THEN NoRecord
    ELSE [ok |-> TRUE,
          rec |-> [method |-> "Diferencias centrales", x |-> x, fx |-> fx.val,
                   xMinusH |-> Sub(x, h), fxMinusH |-> fxhMinus.val,
                   xPlusH |-> Add(x, h), fxPlusH |-> fxhPlus.val, h |-> h,
                   derivative |-> Div(Sub(fxhPlus.val, fxhMinus.val), Mul(Two, h)),
                   errorEstimate |->
                       Abs(Div(Mul(Mul(h, h),
                                   Div(Add(Sub(Add(Sub(fx2hPlus.val,
                                                       Mul(Int2Num(4), fxhPlus.val)),
                                                   Mul(Int2Num(6), fx.val)),
                                               Mul(Int2Num(4), fxhMinus.val)),
                                           fx2hMinus.val),
                                       Mul(Mul(h, h), Mul(h, h)))),
                               Int2Num(6)))]]

\* centralDifference(func, x, h)
centralDifference(func, x, h) ==
    CentralRecord(x, h, evaluateFunction(func, Add(x, h)), evaluateFunction(func, Sub(x, h)),
                  evaluateFunction(func, x), evaluateFunction(func, Add(x, Mul(Two, h))),
                  evaluateFunction(func, Sub(x, Mul(Two, h))))

\* switch (method)
Difference(scheme, func, x, h) ==
    CASE scheme = "forward"  -> forwardDifference(func, x, h)
      [] scheme = "backward" -> backwardDifference(func, x, h)
      [] scheme = "central"  -> centralDifference(func, x, h)

\* hValues = [hVal * 10, hVal * 5, hVal * 2, hVal, hVal / 2, hVal / 5, hVal / 10]
hValues(hVal) ==
    <<Mul(hVal, Int2Num(10)), Mul(hVal, Int2Num(5)), Mul(hVal, Two), hVal,
      Div(hVal, Two), Div(hVal, Int2Num(5)), Div(hVal, Int2Num(10))>>

\* the sweep that also appends what it computes
SweepAppending(its, rec) == Append(its, rec)

\* the sweep over hValues: testResult is logged, this.iterations is left alone
SweepKeeping(its, rec) == its

\* calculate(params) up to the sweep: this.iterations = []; the quotient of
\* the selected scheme; this.iterations.push(result); this.result = derivative
DifferentiationCalculate(p, m) ==
    /\ method = "Differentiation"
    /\ CanCall(p, m)
    /\ passes' = 0
    /\ LET v == DifferentiationValidate(p)
       IN  IF v.error # "ok"
           THEN ThrowWith(m, p, v.error, iterations, result, v.logged) /\ ownRun' = FALSE
           ELSE LET r == Difference(p.method, p.function, parseFloat(p.x), parseFloat(p.h))
                IN  IF ~r.ok
                    THEN /\ ThrowWith(m, p, "Funcion invalida",
                                      ResetIterations(iterations), result,
                                      v.logged \o <<Event("error", "Error evaluando funcion"),
                                                    Event("error", "Error en el calculo")>>)
                         /\ ownRun' = FALSE
                    ELSE /\ GoOn(m, p, "sweep", [iter |-> 0],
                                 Append(ResetIterations(iterations), r.rec),
                                 Number(r.rec.derivative), v.logged)
                         /\ ownRun' = TRUE

\* one pass through the body of for (const h_test of hValues)
DifferentiationSweep ==
    /\ method = "Differentiation"
    /\ pc = "sweep"
    /\ frame.iter < Len(hValues(P.h))
    /\ passes' = passes + 1
    /\ UNCHANGED ownRun
    /\ LET hTest == hValues(parseFloat(P.h))[frame.iter + 1]
           testResult == Difference(P.method, P.function, parseFloat(P.x), hTest)
       IN  IF ~testResult.ok
           THEN ThrowWith(mode, P, "Funcion invalida", iterations, result,
                          logs \o <<Event("error", "Error evaluando funcion"),
                                    Event("error", "Error en el calculo")>>)
           ELSE GoOn(mode, P, "sweep", [iter |-> frame.iter + 1],
                     SweepKeeping(iterations, testResult.rec), result, logs)

\* the code after the sweep
DifferentiationFinish ==
    /\ method = "Differentiation"
    /\ pc = "sweep"
    /\ frame.iter = Len(hValues(P.h))
    /\ UNCHANGED <<passes, ownRun>>
    /\ ReturnWith(mode, P, iterations, result,
                  logs \o <<Event("success", "Derivada calculada"),
                            Event("success", "Derivada")>>)

---------------------------------------------------------------------------
(* NumericalMethod, used directly *)

\* calculate(params) of the base class
BaseCalculate(p, m) ==
    /\ method = "NumericalMethod"
    /\ CanCall(p, m)
    /\ passes' = 0
    /\ ownRun' = FALSE
    /\ ThrowWith(m, p, "El metodo calculate debe ser implementado por la subclase",
                 iterations, result, <<>>)

\* a caller evaluates func at v through evaluateFunction
EvaluateFunction(func, v) ==
    /\ method = "NumericalMethod"
    /\ pc = "idle"
    /\ LET r == evaluateFunction(func, v)
       IN  /\ evaluated' = <<[function |-> func, x |-> v, ok |-> r.ok, val |-> r.val]>>
           /\ logs' = IF r.ok THEN <<>>
                      ELSE <<Event("error", "Error evaluando funcion")>>
    /\ UNCHANGED <<method, pc, params, frame, iterations, result, outcome,
                   passes, ownRun, mode, prev, agree>>

---------------------------------------------------------------------------
(* The system *)

Plans == {"once", "first", "second"}

Next ==
    \/ NewInstance
    \/ \E p \in BisectionParams, m \in Plans : BisectionCalculate(p, m)
    \/ BisectionIterate
    \/ BisectionFinish
    \/ \E p \in NewtonParams, m \in Plans : NewtonCalculate(p, m)
    \/ NewtonIterate
    \/ NewtonFinish
    \/ \E p \in FixedPointParams, m \in Plans : FixedPointCalculate(p, m)
    \/ FixedPointIterate
    \/ FixedPointFinish
    \/ \E p \in LinearParams, m \in Plans : GaussJacobiCalculate(p, m)
    \/ GaussJacobiIterate
    \/ GaussJacobiFinish
    \/ \E p \in LinearParams, m \in Plans : GaussSeidelCalculate(p, m)
    \/ GaussSeidelIterate
    \/ GaussSeidelFinish
    \/ \E p \in LagrangeParams, m \in Plans : LagrangeCalculate(p, m)
    \/ LagrangeTerm
    \/ LagrangeFinish
    \/ \E p \in IntegrationParams, m \in Plans : IntegrationCalculate(p, m)
    \/ IntegrationPoint
    \/ IntegrationFinish
    \/ \E p \in DifferentiationParams, m \in Plans : DifferentiationCalculate(p, m)
    \/ DifferentiationSweep
    \/ DifferentiationFinish
    \/ \E p \in BaseParams, m \in Plans : BaseCalculate(p, m)
    \/ \E fv \in EvaluationPoints : EvaluateFunction(fv[1], fv[2])

Spec == Init /\ [][Next]_vars

---------------------------------------------------------------------------
(* Properties *)

Zero == Int2Num(0)

\* a call has completed on this instance
Done == pc \in {"idle", "again"} /\ outcome.kind # "none"

\* the first of two equal calls has completed: its argument P is still at hand
DoneWith == pc = "again" /\ outcome.kind # "none"

Logged(level, message) == \E i \in 1..Len(logs) : logs[i] = Event(level, message)
Converged == Logged("success", "Convergencia alcanzada")
Warned == Logged("warning", "Maximo de iteraciones alcanzado sin convergencia")
Diverged == outcome = Threw("El metodo diverge con el valor inicial dado")
ConstError == outcome = Threw("Assignment to constant variable.")
SignError == outcome = Threw("f(a) y f(b) deben tener signos opuestos")

\* validateParams accepted the argument P
Validated ==
    CASE method = "Bisection"   -> BisectionValidate(P) = "ok"
      [] method = "Newton"      -> NewtonValidate(P) = "ok"
      [] method = "FixedPoint"  -> FixedPointValidate(P) = "ok"
      [] method = "Jacobi"      -> GaussJacobiValidate(P).error = "ok"
      [] method = "GaussSeidel" -> GaussSeidelValidate(P).error = "ok"
      [] method = "Lagrange"    -> LagrangeValidate(P) = "ok"
      [] method = "Integration" -> IntegrationValidate(P) = "ok"
      [] method = "Differentiation" -> DifferentiationValidate(P).error = "ok"
      [] method = "NumericalMethod" -> TRUE

\* the methods that iterate under a tolerance and an iteration budget
Iterative == method \in {"Bisection", "Newton", "FixedPoint", "Jacobi", "GaussSeidel"}

\* tolerance and maxIterations of the argument P are numbers > 0
ValidBudget == Iterative /\ Gt(P.tolerance, Zero) /\ Gt(P.maxIterations, Zero)

\* the candidate the last iteration record holds
LastRecord == iterations[Len(iterations)]
Candidate ==
    CASE method = "Bisection"   -> Number(LastRecord.c)
      [] method = "Newton"      -> Number(LastRecord.x_next)
      [] method = "FixedPoint"  -> Number(LastRecord.gx)
      [] method = "Jacobi"      -> Vector(LastRecord.xNew)
      [] method = "GaussSeidel" -> Vector(LastRecord.x)

\* C1: a call that passed validation reports one outcome only: if it returns
\* it has logged either the convergence success or the non-convergence
\* warning and never both, and if it throws it has logged neither.
C1_OneOutcome ==
    (DoneWith /\ Validated /\ ValidBudget) =>
        /\ outcome.kind = "returned" => (Converged # Warned)
        /\ outcome.kind = "threw" => ~Converged /\ ~Warned

\* C2: when Newton-Raphson or Fixed-Point meets its convergence test, the
\* call returns at that iteration and the result is the x_next (g(x)) of the
\* last iteration record, whatever its value.
C2_ConvergedResult ==
    (DoneWith /\ ValidBudget /\ method \in {"Newton", "FixedPoint"} /\ Converged) =>
        /\ outcome = Returned
        /\ Len(iterations) = passes
        /\ result = Candidate

\* C3: a Bisection call that passed validation and the sign check (its
\* function evaluates everywhere) never ends by an error.
C3_BisectionNoError ==
    (DoneWith /\ method = "Bisection" /\ ValidBudget /\ ownRun) => outcome = Returned

\* C4: after a call (returned or thrown), result and iterations hold nothing
\* an earlier call produced.
C4_NothingStale ==
    Done => (ownRun \/ (result = Null /\ iterations = <<>>))

\* C5: a call whose tolerance or maxIterations is not a number > 0 never
\* reaches the loop, and ends by an Error with no record and no result set.
C5_RejectsNonPositive ==
    /\ pc \in {"loop", "after"} => Gt(P.tolerance, Zero) /\ Gt(P.maxIterations, Zero)
    /\ (DoneWith /\ Iterative /\ ~(Gt(P.tolerance, Zero) /\ Gt(P.maxIterations, Zero))) =>
          outcome.kind = "threw" /\ passes = 0 /\ ~ownRun

\* the first of two equal calls made maxIterations passes, each appended a
\* record, the last did not meet the convergence test and no divergence
\* Error was thrown
Exhausted ==
    /\ DoneWith
    /\ ownRun
    /\ ValidBudget
    /\ Int2Num(passes) = P.maxIterations
    /\ Len(iterations) = passes
    /\ ~Converged
    /\ ~Diverged

\* C6: a call that uses up its iteration budget returns, logs the
\* non-convergence warning, and its result is the candidate of the last
\* iteration record.
C6_BestEffort ==
    Exhausted => outcome = Returned /\ Warned /\ result = Candidate

\* C7: the second of two calls with equal arguments (on the same instance or
\* on a new one) ends as the first did and, when it returns, getResults()
\* is equal to what the first call gave.
C7_Idempotent == mode = "second" /\ Done => agree

C7_Witness ==
    /\ pc = "idle" /\ mode = "second" /\ outcome = Returned
    /\ Len(iterations) >= 2 /\ result # Null /\ agree

\* C8: with maxIterations = N > 0 a call makes at most N passes through the
\* loop, and the loop counter has advanced by one on every pass that did not
\* leave the loop.
C8_BoundedPasses ==
    (pc \in {"loop", "after"} /\ Gt(P.maxIterations, Zero)) =>
        /\ Le(Int2Num(passes), P.maxIterations)
        /\ pc = "loop" => frame.iter = passes
        /\ pc = "after" => frame.iter + 1 = passes

C8_Witness ==
    /\ pc = "loop" /\ passes = MaxIter /\ P.maxIterations = Int2Num(MaxIter)
    /\ Len(iterations) = MaxIter

\* f(a)*f(b) for the bracket of the argument P
EndpointProduct ==
    Mul(evaluateFunction(P.function, P.a).val, evaluateFunction(P.function, P.b).val)

\* C9: a Bisection call with f(a)*f(b) > 0 throws the opposite-signs Error
\* with no iteration record appended; with f(a)*f(b) <= 0 it passes the
\* check and makes its first pass through the loop.
C9_SignCheck ==
    /\ (method = "Bisection" /\ pc = "loop") =>
          ~(EndpointProduct.d > 0 /\ EndpointProduct.n > 0)
    /\ (method = "Bisection" /\ DoneWith /\ BisectionValidate(P) = "ok") =>
          IF EndpointProduct.d > 0 /\ EndpointProduct.n > 0
          THEN SignError /\ passes = 0 /\ ~ownRun
          ELSE ~SignError /\ ownRun /\ (Gt(P.maxIterations, Zero) => passes >= 1)

\* a root at the left end of the bracket passed the check and entered the loop
C9_Witness ==
    /\ method = "Bisection" /\ DoneWith /\ BisectionValidate(P) = "ok"
    /\ EndpointProduct = Zero /\ ownRun /\ passes >= 1

\* the record k of a Bisection trace brackets a sign change
Bracketing(rec) ==
    /\ Lt(rec.a, rec.b)
    /\ Le(Mul(evaluateFunction(P.function, rec.a).val,
              evaluateFunction(P.function, rec.b).val), Zero)

\* record k+1 holds the half of record k's bracket that the rule selects
Halved(rec, next) ==
    IF Lt(Mul(evaluateFunction(P.function, rec.a).val, rec.fc), Zero)
    THEN next.a = rec.a /\ next.b = rec.c
    ELSE next.a = rec.c /\ next.b = rec.b

\* C10: every Bisection record brackets a sign change with a < b, and a step
\* that does not converge narrows the bracket to one half and goes on: with
\* budget left, record k is followed by record k+1 holding that half.
C10_Narrowing ==
    (method = "Bisection" /\ DoneWith /\ ValidBudget /\ ownRun) =>
        /\ \A k \in 1..Len(iterations) : Bracketing(iterations[k])
        /\ \A k \in 1..Len(iterations) :
              (/\ ~BisectionConverged(iterations[k].fc, iterations[k].error, P.tolerance)
               /\ Lt(Int2Num(k), P.maxIterations))
              => /\ Len(iterations) > k
                 /\ Halved(iterations[k], iterations[k + 1])

---------------------------------------------------------------------------
(* Divergence and small derivatives *)

DivergeMessage == "El metodo diverge con el valor inicial dado"
DerivativeMessage == "La derivada es muy pequena, el metodo puede no converger"

\* |v| > 1e10, or v is NaN or +-Infinity
Runaway(v) == ~IsFinite(v) \/ GtPow10(Abs(v), DivergenceExp)

\* C11: a Newton-Raphson run in which some iteration computed an x_next
\* with |x_next| > 1e10 or not finite ended in that iteration by the
\* divergence error, with no result.
C11_NewtonDivergence ==
    (method = "Newton" /\ DoneWith /\ Validated /\ ValidBudget /\ ownRun) =>
        \A k \in 1..Len(iterations) :
            Runaway(iterations[k].x_next) =>
                /\ outcome = Threw(DivergeMessage)
                /\ k = Len(iterations)
                /\ result = Null

\* C12: a Fixed-Point run in which some iterate g(x) exceeded 1e10 in
\* magnitude or was not finite ended at that iteration by the divergence
\* error; no run returns a result that is not finite.
C12_FixedPointDivergence ==
    (method = "FixedPoint" /\ DoneWith /\ Validated /\ ValidBudget /\ ownRun) =>
        /\ \A k \in 1..Len(iterations) :
               Runaway(iterations[k].gx) =>
                   outcome = Threw(DivergeMessage) /\ k = Len(iterations)
        /\ (outcome = Returned /\ result.tag = "number") => IsFinite(result.val[1])

\* the derivative calculate finds at the x of the pass about to run
DerivativeHere == calculateDerivative(P.function, frame.x)
ValueHere == evaluateFunction(P.function, frame.x)

\* a Newton-Raphson pass is about to run at an x where f and f' can be
\* evaluated and |f'(x)| < 1e-10
AtSmallDerivative ==
    /\ method = "Newton"
    /\ pc = "loop"
    /\ LoopCondition(frame.iter, P.maxIterations)
    /\ ValueHere.ok /\ DerivativeHere.ok
    /\ LtNegPow10(Abs(DerivativeHere.val), SmallDerivativeExp)

\* C13: a Newton-Raphson pass at an x where |f'(x)| < 1e-10 ends the run by
\* the derivative error, appends no record and sets no result, whatever
\* |f(x)| is; and a run that ended by that error holds one record less than
\* the passes it made and no result.
C13_SmallDerivative ==
    [][AtSmallDerivative =>
          /\ outcome' = Threw(DerivativeMessage)
          /\ iterations' = iterations
          /\ result' = Null
          /\ result = Null]_vars

\* a run stopped by the derivative error in a pass where f(x) = 0 is below
\* the tolerance
C13_Witness ==
    /\ method = "Newton" /\ DoneWith /\ ownRun /\ ValidBudget
    /\ outcome = Threw(DerivativeMessage)
    /\ P.function = "0*x"
    /\ Lt(Abs(evaluateFunction(P.function, P.x0).val), P.tolerance)
    /\ passes = 1 /\ iterations = <<>> /\ result = Null

---------------------------------------------------------------------------
(* Linear systems: validation, warnings, runs that never abort *)

Linear == method \in {"Jacobi", "GaussSeidel"}

\* the matrix is n x n, the vector and the initial guess have length n
ShapeOk(p) ==
    LET n == Len(p.matrix)
    IN  /\ \A i \in 1..n : Len(p.matrix[i]) = n
        /\ Len(p.vector) = n
        /\ Len(p.initialGuess) = n

\* some diagonal entry has magnitude below 1e-10
SmallDiagonal(p) ==
    \E i \in 1..Len(p.matrix) : LtNegPow10(Abs(p.matrix[i][i]), ZeroDiagonalExp)

ShapeMessages ==
    {"La matriz debe ser cuadrada",
     "El vector de terminos independientes debe tener el mismo tamano que la matriz",
     "El vector inicial debe tener el mismo tamano que la matriz",
     "Elemento diagonal es cero o muy pequeno"}

\* C14: Jacobi and Gauss-Seidel reject by a validation error, before any
\* sweep, every input whose matrix is not square, whose vector or initial
\* guess has not the matrix's length, or which has a diagonal entry below
\* 1e-10 in magnitude; and the two validations give every input the same
\* verdict.
C14_SharedValidation ==
    /\ (Linear /\ pc = "again") =>
           GaussJacobiValidate(P).error = GaussSeidelValidate(P).error
    /\ (Linear /\ pc \in {"loop", "after"}) => (ShapeOk(P) /\ ~SmallDiagonal(P))
    /\ (Linear /\ DoneWith /\ ~(ShapeOk(P) /\ ~SmallDiagonal(P))) =>
           /\ outcome.kind = "threw"
           /\ outcome.error \in ShapeMessages
           /\ passes = 0
           /\ ~ownRun

\* a Jacobi call rejected for a zero on the diagonal of a well-shaped system
C14_Witness ==
    /\ method = "Jacobi" /\ DoneWith
    /\ ShapeOk(P) /\ SmallDiagonal(P)
    /\ outcome = Threw("Elemento diagonal es cero o muy pequeno")
    /\ passes = 0

\* the x (Gauss-Seidel) or xNew (Jacobi) of the last iteration record
LastIterate == IF method = "Jacobi" THEN LastRecord.xNew ELSE LastRecord.x

\* C15: a Jacobi or Gauss-Seidel run that passed validation returns: either
\* it logged convergence and its result is the iterate of the last record,
\* or it made maxIterations sweeps, logged the warning and its result is the
\* last iterate -- also when the iterates are not finite.
C15_NeverAborts ==
    (Linear /\ DoneWith /\ Validated /\ ValidBudget) =>
        /\ outcome = Returned
        /\ Converged # Warned
        /\ Len(iterations) = passes /\ passes >= 1
        /\ result = Vector(LastIterate)
        /\ Warned => Int2Num(passes) = P.maxIterations

\* a run whose iterates are not finite used up its budget and returned them
C15_Witness ==
    /\ Linear /\ DoneWith /\ Validated /\ ValidBudget
    /\ outcome = Returned /\ Warned
    /\ passes = MaxIter
    /\ \E i \in 1..Len(result.val) : ~IsFinite(result.val[i])

\* C18: for a system that passes the shape and zero-diagonal checks the
\* dominance warning is logged for exactly the rows i with |a_ii| <= the sum
\* of the other |a_ij|, and the run goes on: it returns with a result.
C18_DominanceWarning ==
    (Linear /\ DoneWith /\ ShapeOk(P) /\ ~SmallDiagonal(P) /\ ValidBudget) =>
        /\ \A i \in 1..Len(P.matrix) :
               Logged("warning", "Fila " \o ToString(i) \o ": La matriz no es estrictamente diagonal dominante")
               <=> Le(Abs(P.matrix[i][i]), OffDiagonal(P.matrix, i))
        /\ outcome = Returned
        /\ passes >= 1
        /\ result.tag = "vector"

\* a run on a system whose second row has |a_22| equal to the off-diagonal
\* sum and whose first row is strictly dominant
C18_Witness ==
    /\ Linear /\ DoneWith /\ ShapeOk(P) /\ ~SmallDiagonal(P) /\ ValidBudget
    /\ Abs(P.matrix[2][2]) = OffDiagonal(P.matrix, 2)
    /\ Gt(Abs(P.matrix[1][1]), OffDiagonal(P.matrix, 1))
    /\ Logged("warning", "Fila 2: La matriz no es estrictamente diagonal dominante")
    /\ outcome = Returned /\ result.tag = "vector"

---------------------------------------------------------------------------
(* Jacobi against Gauss-Seidel on the same system *)

\* the whole loop of GaussSeidelMethod.calculate from iterate x at counter
\* iter: whether it converged, the last iterate, the error of each sweep
RECURSIVE GaussSeidelLoop(_, _, _, _)
GaussSeidelLoop(p, x, iter, errors) ==
    IF ~LoopCondition(iter, p.maxIterations)
    THEN [converged |-> FALSE, x |-> x, errors |-> errors]
    ELSE LET xNew == GaussSeidelSweep(p.matrix, p.vector, x, 1)
             error == MaxNormError(xNew, x)
             relativeError == RelativeError(xNew, x)
         IN  IF GaussSeidelConverged(error, relativeError, p.tolerance)
             THEN [converged |-> TRUE, x |-> xNew, errors |-> Append(errors, error)]
             ELSE GaussSeidelLoop(p, xNew, iter + 1, Append(errors, error))

GaussSeidelRun(p) == GaussSeidelLoop(p, p.initialGuess, 0, <<>>)

\* the whole loop of GaussJacobiMethod.calculate
RECURSIVE GaussJacobiLoop(_, _, _, _)
GaussJacobiLoop(p, x, iter, errors) ==
    IF ~LoopCondition(iter, p.maxIterations)
    THEN [converged |-> FALSE, x |-> x, errors |-> errors]
    ELSE LET xNew == GaussJacobiSweep(p.matrix, p.vector, x)
             error == MaxNormError(xNew, x)
         IN  IF GaussJacobiConverged(error, p.tolerance)
             THEN [converged |-> TRUE, x |-> xNew, errors |-> Append(errors, error)]
             ELSE GaussJacobiLoop(p, xNew, iter + 1, Append(errors, error))

GaussJacobiRun(p) == GaussJacobiLoop(p, p.initialGuess, 0, <<>>)

\* the run just completed is the run these give for its method: the same
\* errors sweep by sweep, the same ending, the same result
RunHere == IF method = "Jacobi" THEN GaussJacobiRun(P) ELSE GaussSeidelRun(P)
SameAsRun ==
    /\ RunHere.errors = [k \in 1..Len(iterations) |-> iterations[k].error]
    /\ RunHere.converged = Converged
    /\ result = Vector(RunHere.x)

\* |a_ii| > sum of the other |a_ij| in every row
StrictlyDominant(matrix) ==
    \A i \in 1..Len(matrix) : Gt(Abs(matrix[i][i]), OffDiagonal(matrix, i))

\* max over the rows of (sum of the other |a_ij|) / |a_ii|
DominanceRatio(matrix) ==
    MaxOf([i \in 1..Len(matrix) |-> Div(OffDiagonal(matrix, i), Abs(matrix[i][i]))])

\* a run of either method on a strictly dominant system has completed
DominantRunDone ==
    Linear /\ DoneWith /\ Validated /\ ValidBudget /\ StrictlyDominant(P.matrix)

\* both methods converge within the budget of P
BothConverge == GaussJacobiRun(P).converged /\ GaussSeidelRun(P).converged

\* sweep for sweep, Gauss-Seidel changes its iterate by no more than Jacobi
StepsNoLarger ==
    LET j == GaussJacobiRun(P).errors
        g == GaussSeidelRun(P).errors
    IN  \A k \in 1..Len(j) : k <= Len(g) => Le(g[k], j[k])

ResultsWithin(bound) ==
    LET j == GaussJacobiRun(P).x
        g == GaussSeidelRun(P).x
    IN  \A i \in 1..Len(j) : Le(Abs(Sub(j[i], g[i])), bound)

\* C17 as stated: on a strictly dominant system both methods converge
\* (within a sufficient budget) and their results agree component by
\* component to the order of the tolerance: within ten times the tolerance.
C17_SameFixedPoint ==
    (DominantRunDone /\ BothConverge) =>
        ResultsWithin(Mul(Int2Num(10), P.tolerance))

\* Gauss-Seidel stopped because its last max-norm error was below tolerance
GaussSeidelStoppedOnError ==
    LET g == GaussSeidelRun(P)
    IN  g.converged /\ Lt(g.errors[Len(g.errors)], P.tolerance)

\* 2 r / (1 - r) * tolerance, r the dominance ratio: twice the distance to
\* the solution that a last step below tolerance leaves
AgreementBound ==
    LET r == DominanceRatio(P.matrix)
    IN  Div(Mul(Mul(Int2Num(2), r), P.tolerance), Sub(Int2Num(1), r))

\* C17 amended: on a strictly dominant system on which both methods converge
\* within the budget, the results agree component by component within
\* 2r/(1-r) times the tolerance whenever Gauss-Seidel stopped on its
\* max-norm test (and not on the relative error alone).
C17_AgreeWhenStoppedOnError ==
    DominantRunDone =>
        /\ SameAsRun
        /\ (BothConverge /\ GaussSeidelStoppedOnError) => ResultsWithin(AgreementBound)

\* a Jacobi run that converged to a result other than Gauss-Seidel's
C17_Witness ==
    /\ DominantRunDone /\ method = "Jacobi" /\ Converged
    /\ BothConverge /\ GaussSeidelStoppedOnError
    /\ result # Vector(GaussSeidelRun(P).x)
    /\ ResultsWithin(AgreementBound)

---------------------------------------------------------------------------
(* LagrangePolynomial: validation and interpolation *)

\* the points validateParams must refuse: arrays of different lengths, fewer
\* than two points, or two equal values of x
BadPoints(p) ==
    \/ Len(p.xPoints) # Len(p.yPoints)
    \/ Len(p.xPoints) < 2
    \/ \E i, j \in 1..Len(p.xPoints) : i # j /\ p.xPoints[i] = p.xPoints[j]

PointMessages ==
    {"Los arrays de x e y deben tener el mismo tamano",
     "Se necesitan al menos 2 puntos para la interpolacion",
     "Los valores de x no pueden estar repetidos"}

\* C19: LagrangePolynomial refuses repeated x values, arrays of different
\* lengths and fewer than two points with a validation Error before any
\* basis value is computed (no term is computed, nothing is assigned), so
\* wherever a basis polynomial is computed every difference x_i - x_j,
\* i /= j, is nonzero and so is every recorded denominator.
C19_DistinctNodes ==
    /\ (method = "Lagrange" /\ pc = "terms") =>
          /\ ~BadPoints(P)
          /\ \A i, j \in 1..Len(P.xPoints) :
                i # j => ~IsZero(Sub(P.xPoints[i], P.xPoints[j]))
          /\ \A k \in 1..Len(iterations) :
                IsFinite(iterations[k].denominador) /\ ~IsZero(iterations[k].denominador)
    /\ (method = "Lagrange" /\ DoneWith /\ BadPoints(P)) =>
          /\ outcome.kind = "threw"
          /\ outcome.error \in PointMessages
          /\ passes = 0
          /\ ~ownRun
    /\ (method = "Lagrange" /\ Done /\ ownRun /\ outcome.kind # "none") =>
          \A k \in 1..Len(iterations) :
             IsFinite(iterations[k].denominador) /\ ~IsZero(iterations[k].denominador)

\* a call with the x values 1, 2, 1 was refused before any term
C19_Witness ==
    /\ method = "Lagrange"
    /\ DoneWith
    /\ P.xPoints = V3(1, 2, 1)
    /\ Len(P.yPoints) = 3
    /\ outcome = Threw("Los valores de x no pueden estar repetidos")
    /\ passes = 0

\* C20: for validated points the basis polynomials satisfy L_i(x_k) = 1 when
\* i = k and 0 otherwise; so a call with xEval equal to a node x_k returns
\* y_k, and the self-verification finds P(x_i) = y_i at every node (no
\* warning about the interpolation error is logged).
C20_InterpolatesNodes ==
    (method = "Lagrange" /\ DoneWith /\ Validated) =>
        /\ outcome = Returned
        /\ passes = Len(P.xPoints)
        /\ \A i, k \in 1..Len(P.xPoints) :
              calculateBasisPolynomial(P.xPoints, i, P.xPoints[k])
                 = (IF i = k THEN Int2Num(1) ELSE Int2Num(0))
        /\ \A k \in 1..Len(P.xPoints) :
              /\ PolynomialFrom(P.xPoints, P.yPoints, P.xPoints[k], 1, Int2Num(0)) = P.yPoints[k]
              /\ P.xEval = P.xPoints[k] =>
                    /\ result = Number(P.yPoints[k])
                    /\ \A i \in 1..Len(iterations) :
                          iterations[i].li = (IF i = k THEN Int2Num(1) ELSE Int2Num(0))
        /\ ~Logged("warning", "Error maximo en la interpolacion")

\* the polynomial through (0,1), (1,2), (2,5) was evaluated at the node 1
C20_Witness ==
    /\ method = "Lagrange"
    /\ DoneWith
    /\ P.xPoints = V3(0, 1, 2)
    /\ P.yPoints = V3(1, 2, 5)
    /\ P.xEval = Int2Num(1)
    /\ outcome = Returned
    /\ passes = 3
    /\ result = Number(Int2Num(2))
    /\ Len(iterations) = 3

\* the smallest and the largest of the values xs
Smallest(xs) == CHOOSE v \in {xs[i] : i \in 1..Len(xs)} : \A k \in 1..Len(xs) : Le(v, xs[k])
Largest(xs) == CHOOSE v \in {xs[i] : i \in 1..Len(xs)} : \A k \in 1..Len(xs) : Ge(v, xs[k])

\* xEval lies outside [min(xPoints), max(xPoints)]
Outside(p) == Lt(p.xEval, Smallest(p.xPoints)) \/ Gt(p.xEval, Largest(p.xPoints))

ExtrapolationLogged ==
    Logged("warning", "Se esta realizando extrapolacion, los resultados pueden ser menos confiables")

\* C21: a Lagrange run logs the extrapolation warning exactly when xEval is
\* below the smallest or above the largest x; with or without the warning
\* the run returns, result is the sum of the y_i * L_i(xEval), and the trace
\* holds the n terms whose last partial sum is that result.
C21_ExtrapolationWarning ==
    (method = "Lagrange" /\ DoneWith /\ Validated) =>
        /\ outcome = Returned
        /\ ExtrapolationLogged <=> Outside(P)
        /\ result = Number(PolynomialFrom(P.xPoints, P.yPoints, P.xEval, 1, Int2Num(0)))
        /\ Len(iterations) = Len(P.xPoints)
        /\ iterations[Len(iterations)].suma = result.val[1]
        /\ \A k \in 1..Len(iterations) :
              iterations[k].term = Mul(P.yPoints[k],
                                       calculateBasisPolynomial(P.xPoints, k, P.xEval))

\* the polynomial through (0,1), (1,2), (2,5) was evaluated at -1, below the
\* points: the warning was logged and the run returned 2
C21_Witness ==
    /\ method = "Lagrange"
    /\ DoneWith
    /\ P.xPoints = V3(0, 1, 2)
    /\ P.yPoints = V3(1, 2, 5)
    /\ P.xEval = Int2Num(-1)
    /\ ExtrapolationLogged
    /\ outcome = Returned
    /\ result = Number(Int2Num(2))

---------------------------------------------------------------------------
(* NumericalIntegration and NumericalDifferentiation *)

\* 0.5 f(x_0) + f(x_1) + ... + f(x_{n-1}) + 0.5 f(x_n) with x_i = a + i h,
\* from i on
RECURSIVE TrapezoidSum(_, _, _, _, _)
TrapezoidSum(func, a, h, n, i) ==
    IF i > n THEN Int2Num(0)
    ELSE Add(Mul(IF i = 0 \/ i = n THEN Frac(1, 2) ELSE Int2Num(1),
                 evaluateFunction(func, Add(a, Mul(Int2Num(i), h))).val),
             TrapezoidSum(func, a, h, n, i + 1))

\* the composite trapezoid value over n subdivisions of [a, b]
Trapezoid(func, a, b, n) ==
    LET h == Div(Sub(b, a), Int2Num(n))
    IN  Mul(h, TrapezoidSum(func, a, h, n, 0))

\* the integer c is even; the integer c is the length k of a sequence
IsEven(c) == c.e > 0 \/ c.n % 2 = 0
IsLength(c, k) == c.e = 0 /\ c.d = 1 /\ c.n = k

SimpsonLogged == Logged("info", "Resultado por Simpson")

\* C22: an Integration call that returns has appended n+1 records, its
\* result is the sumPartial of the last of them and the composite trapezoid
\* value over n subdivisions, and Simpson's rule was computed exactly when n
\* is even.
C22_TrapezoidResult ==
    (method = "Integration" /\ DoneWith /\ outcome = Returned) =>
        /\ IsLength(P.n, Len(iterations) - 1)
        /\ result = Number(iterations[Len(iterations)].sumPartial)
        /\ P.n.e = 0 => result = Number(Trapezoid(P.function, P.a, P.b, P.n.n))
        /\ SimpsonLogged <=> IsEven(P.n)

\* the difference quotient of the scheme for f = func at x with step h
Quotient(scheme, func, x, h) ==
    LET f(v) == evaluateFunction(func, v).val
    IN  CASE scheme = "forward"  -> Div(Sub(f(Add(x, h)), f(x)), h)
          [] scheme = "backward" -> Div(Sub(f(x), f(Sub(x, h))), h)
          [] scheme = "central"  -> Div(Sub(f(Add(x, h)), f(Sub(x, h))), Mul(Int2Num(2), h))

\* the trace holds one record, for the caller's x and h, and result is its
\* derivative, the difference quotient of the selected scheme
OneRecord ==
    /\ Len(iterations) = 1
    /\ iterations[1].x = P.x
    /\ iterations[1].h = P.h
    /\ iterations[1].derivative = Quotient(P.method, P.function, P.x, P.h)
    /\ result = Number(iterations[1].derivative)

\* C23: a Differentiation run returns the difference quotient of the
\* selected scheme for the caller's h and its trace holds one record, for
\* that h: this holds before, at every step of and after the sweep over the
\* seven diagnostic values of h, which all seven are tried before the run
\* returns; a run that throws has thrown before the sweep.
C23_DifferenceQuotient ==
    /\ (method = "Differentiation" /\ pc = "sweep") => OneRecord
    /\ (method = "Differentiation" /\ DoneWith /\ outcome = Returned) =>
          OneRecord /\ passes = Len(hValues(P.h))
    /\ (method = "Differentiation" /\ DoneWith /\ outcome.kind = "threw") => passes = 0

\* the central quotient of x^2-2 at 1 with h = 1/2 was returned after the sweep
C23_Witness ==
    /\ method = "Differentiation"
    /\ DoneWith
    /\ outcome = Returned
    /\ P.function = "x^2-2"
    /\ P.method = "central"
    /\ P.h = Frac(1, 2)
    /\ passes = 7
    /\ Len(iterations) = 1
    /\ result = Number(Int2Num(2))

---------------------------------------------------------------------------
(* evaluateFunction *)

\* a direct call of evaluateFunction has been made: E is the call, with its
\* outcome
Evaluated == evaluated # <<>>
E == evaluated[1]

\* the texts 'name(x)' of the whitelisted names
WhitelistedCalls ==
    {<<"sin(x)", NameSin>>, <<"cos(x)", NameCos>>, <<"tan(x)", NameTan>>,
     <<"log(x)", NameLog>>, <<"sqrt(x)", NameSqrt>>, <<"exp(x)", NameExp>>}

\* C24: for each of the names sin, cos, tan, log, sqrt, exp, evaluating
\* 'name(x)' at v succeeds and yields that function of v.
C24_WhitelistedFunctions ==
    Evaluated =>
        \A c \in WhitelistedCalls :
            E.function = c[1] => (E.ok /\ E.val = MathValue(c[2], E.x))

\* the texts with a power, and what each denotes at v = 0, 1, 2, ... when ^
\* is the power, binding tighter than * and /
PowerTexts == {"x^2-2", "x^2+3*x-2", "2*x^2", "(x+1)^2", "2^x", "x^x"}
PowerValue(func, v) ==
    CASE func = "x^2-2"     -> Sub(Pow(v, 2), Int2Num(2))
      [] func = "x^2+3*x-2" -> Sub(Add(Pow(v, 2), Mul(Int2Num(3), v)), Int2Num(2))
      [] func = "2*x^2"     -> Mul(Int2Num(2), Pow(v, 2))
      [] func = "(x+1)^2"   -> Pow(Add(v, Int2Num(1)), 2)
      [] func = "2^x"       -> Pow(Int2Num(2), v.n)
      [] func = "x^x"       -> Pow(v, v.n)

\* C25: an expression with base^exponent, base and exponent each a number,
\* the variable or a parenthesised sub-expression, evaluates to the base
\* raised to the exponent, ^ binding tighter than * and /: at x = 2 the
\* texts (x+1)^2, 2^x, x^x and x^2+3*x-2 give 9, 4, 4 and 8.
C25_Power ==
    (Evaluated /\ E.function \in PowerTexts /\ E.x.d = 1 /\ E.x.n >= 0) =>
        (E.ok /\ E.val = PowerValue(E.function, E.x))

\* the text t without the whitelisted names, from the k-th name on
RECURSIVE WithoutNames(_, _)
WithoutNames(t, k) ==
    IF k > Len(WhitelistedNames) THEN t
    ELSE WithoutNames(ReplaceAll(t, WhitelistedNames[k], <<>>), k + 1)

\* every token of func is a number, an operator, a parenthesis, a
\* whitelisted name or the variable x
OnlyWhitelisted(func) ==
    LET rest == WithoutNames(Chars(func), 1)
    IN  \A i \in 1..Len(rest) :
            IsDigit(rest[i]) \/ rest[i].c \in {"+", "-", "*", "/", "^", "(", ")", "x", " "}

\* C26: an expression with a token that is not a number, one of + - * / ^,
\* a parenthesis, a whitelisted name or x is rejected by an Error: it is
\* never evaluated to a value.
C26_RejectsOtherTokens ==
    (Evaluated /\ ~OnlyWhitelisted(E.function)) => ~E.ok

\* C27: evaluateFunction never returns NaN or an infinity (it fails
\* instead); Bisection, Integration and Differentiation never record a
\* function value that is not finite and never return a result that is not
\* finite.
C27_FiniteValues ==
    /\ (Evaluated /\ E.ok) => IsFinite(E.val)
    /\ (method \in {"Bisection", "Integration", "Differentiation"} /\ Done
          /\ outcome = Returned /\ result.tag = "number") => IsFinite(result.val[1])
    /\ (method = "Integration" /\ pc = "points") =>
          \A k \in 1..Len(iterations) : IsFinite(iterations[k].fx)

---------------------------------------------------------------------------
(* The trace of the iterative methods *)

\* calculate of an iterative method is in or just past its loop
Running == Iterative /\ pc \in {"loop", "after"}

\* the records are numbered 1, 2, ..., k
Numbered == \A k \in 1..Len(iterations) : iterations[k].iteration = k

\* C28: while Bisection, Newton-Raphson, Fixed-Point, Jacobi or Gauss-Seidel
\* runs, a step leaves the records of the trace as they are and appends at
\* most one; the trace then holds at most maxIterations records (for a
\* maxIterations > 0), numbered 1, 2, ..., k, and as long as the run goes on
\* one record per pass made.
C28_AppendOnly ==
    [][Running =>
          /\ Len(iterations') >= Len(iterations)
          /\ Len(iterations') <= Len(iterations) + 1
          /\ SubSeq(iterations', 1, Len(iterations)) = iterations
          /\ Numbered'
          /\ Gt(P.maxIterations, Zero) => Le(Int2Num(Len(iterations')), P.maxIterations)
          /\ Len(iterations') <= passes'
          /\ (pc' \in {"loop", "after"} \/ outcome' = Returned) => Len(iterations') = passes']_vars

\* a Gauss-Seidel run that used its budget of two sweeps left the records 1, 2
C28_Witness ==
    /\ method = "GaussSeidel"
    /\ DoneWith
    /\ outcome = Returned
    /\ Warned
    /\ passes = 2
    /\ Len(iterations) = 2
    /\ iterations[1].iteration = 1
    /\ iterations[2].iteration = 2
    /\ iterations[2].xOld = iterations[1].x

\* the trace is the one of the latest call with a linear system
LinearTrace == Linear /\ (Running \/ (DoneWith /\ ownRun))

\* the vector component i of a Gauss-Seidel record is computed from: the new
\* components before i, the starting components from i on
MixedIterate(r, i) == [j \in 1..Len(r.x) |-> IF j < i THEN r.x[j] ELSE r.xOld[j]]

\* (b_i - sum of a_ij * from_j over j # i) / a_ii
ComponentFrom(i, from) ==
    Div(Sub(P.vector[i], OffDiagonalDot(P.matrix, i, from)), P.matrix[i][i])

\* C29: in every Jacobi record each component of the new vector is computed
\* from the record's starting vector alone, and the next record starts from
\* that new vector; in every Gauss-Seidel record component i of the new vector
\* is computed from the new components j < i and the starting components
\* j > i, and the next record starts from that new vector.  The first record
\* starts from the initial guess.
C29_SweepRules ==
    /\ (LinearTrace /\ method = "Jacobi") =>
          \A k \in 1..Len(iterations) :
              /\ iterations[k].x = IF k = 1 THEN P.initialGuess ELSE iterations[k - 1].xNew
              /\ Len(iterations[k].xNew) = Len(P.matrix)
              /\ \A i \in 1..Len(P.matrix) :
                    iterations[k].xNew[i] = ComponentFrom(i, iterations[k].x)
    /\ (LinearTrace /\ method = "GaussSeidel") =>
          \A k \in 1..Len(iterations) :
              /\ iterations[k].xOld = IF k = 1 THEN P.initialGuess ELSE iterations[k - 1].x
              /\ Len(iterations[k].x) = Len(P.matrix)
              /\ \A i \in 1..Len(P.matrix) :
                    iterations[k].x[i] = ComponentFrom(i, MixedIterate(iterations[k], i))

\* two Jacobi passes on 2x + y = 3, x + 2y = 3 from (0, 0): (3/2, 3/2), then
\* (3/4, 3/4), where an in-place sweep would have given (3/2, 3/4) first
C29_Witness ==
    /\ method = "Jacobi"
    /\ LinearTrace
    /\ P.matrix = Dominant
    /\ P.vector = V2(3, 3)
    /\ Len(iterations) = 2
    /\ iterations[1].x = V2(0, 0)
    /\ iterations[1].xNew = <<Frac(3, 2), Frac(3, 2)>>
    /\ iterations[2].xNew = <<Frac(3, 4), Frac(3, 4)>>

\* the two vectors of a record: the one the pass started from, the one it made
StartOf(r) == IF method = "Jacobi" THEN r.x ELSE r.xOld
NewOf(r) == IF method = "Jacobi" THEN r.xNew ELSE r.x

\* e is the largest |new_i - start_i| of the record (for finite differences)
IsMaxNorm(r) ==
    LET d == [i \in 1..Len(NewOf(r)) |-> Abs(Sub(NewOf(r)[i], StartOf(r)[i]))]
    IN  (\A i \in 1..Len(d) : IsFinite(d[i])) =>
            /\ \A i \in 1..Len(d) : Le(d[i], r.error)
            /\ \E i \in 1..Len(d) : r.error = d[i]

\* the stopping test of the method on the record r
StopsAt(r) ==
    IF method = "Jacobi"
    THEN Lt(r.error, P.tolerance)
    ELSE Lt(r.error, P.tolerance) \/ SqrtLt(r.relativeError.radicand, P.tolerance)

\* the relative error of a record of finite vectors is a number >= 0
RelativeErrorDefined(r) ==
    (\A i \in 1..Len(r.x) : IsFinite(r.x[i]) /\ IsFinite(r.xOld[i])) =>
        IsFinite(r.relativeError.radicand) /\ r.relativeError.radicand.n >= 0

\* C30: Jacobi stops at the first iteration whose max-norm error is below the
\* tolerance, Gauss-Seidel at the first whose max-norm error or relative
\* error is; the result is then that iteration's new iterate; and in every
\* Gauss-Seidel record (of finite vectors) the relative error is a
\* well-defined number >= 0, also when the new iterate is the zero vector.
C30_StoppingRules ==
    LinearTrace =>
        /\ \A k \in 1..Len(iterations) : IsMaxNorm(iterations[k])
        /\ \A k \in 1..(Len(iterations) - 1) : ~StopsAt(iterations[k])
        /\ (pc = "loop" /\ iterations # <<>>) => ~StopsAt(LastRecord)
        /\ (pc = "after" /\ iterations # <<>>) =>
              (StopsAt(LastRecord) <=> result = Vector(NewOf(LastRecord)))
        /\ (DoneWith /\ outcome = Returned /\ Converged) =>
              /\ StopsAt(LastRecord)
              /\ result = Vector(NewOf(LastRecord))
        /\ method = "GaussSeidel" =>
              \A k \in 1..Len(iterations) : RelativeErrorDefined(iterations[k])

=============================================================================
